---- MODULE Spec2Model ----
\* arelo: a file watcher that supervises one child command and restarts it
\* when a watched file changes.  This module models
\*   - the process supervisor (runner / runCmd in arelo.go) together with the
\*     trigger pipeline main-forwarder -> relay -> supervisor      (Spec), and
\*   - the watcher set-up, the tree walker and the event router
\*     (watcher / addTargets / addDirRecursive in arelo.go)       (SpecWatch),
\*     with the set-up alone for every list of targets            (SpecSetup).
\* Unbuffered Go channels are modelled by the blocked sender: a channel
\* variable holds what its sender is currently blocked on.
EXTENDS Naturals, Sequences, FiniteSets

VARIABLES
    \* ---- configuration (flags), fixed after Init
    autorestart,   \* -r / --restart
    \* ---- main and its forwarder goroutine (arelo.go 108-140)
    ctxDone,       \* the outer context has been cancelled
    mainPc,        \* "waitSig" | "wgWait" | "exit"
    fwdPc,         \* "select" | "sendReload" | "wgWait" | "fatal" | "returned"
    \* ---- trigger pipeline
    modC,          \* sequence of names the router still has to send on modC
    errC,          \* TRUE while the router is blocked sending on errC
    routerPc,      \* "setup" | "loop" | "sendErr" | "returned" | "failed"
    relayPc,       \* "range" | "try"   (runner's first goroutine, 362-370)
    \* ---- supervisor loop (arelo.go 395-445)
    supPc,         \* "check" | "spawn" | "toSelect" | "select423" | "delay435"
                   \* | "waitDone443" | "shutWait" | "returned"
    cmdctxDone,    \* cancel() of the current cycle's cmdctx was called
    restart,       \* the cycle's restart channel is closed
    done,          \* the cycle's done channel is closed
    \* ---- the goroutine running runCmd (arelo.go 408-421, 450-513)
    cmdPc,         \* "idle" | "start" | "select486" | "kill496" | "select500"
                   \* | "kill503" | "wait506" | "ret" | "closeDone"
    child,         \* the cycle's process: "none" | "alive" | "exited" | "reaped"
    orphans,       \* processes of earlier cycles that are still alive
    \* ---- history variables (not program state)
    cause,         \* what ended the last trigger wait: "none"|"trigger"|"restart"
    accepted,      \* trigger waits of the current cycle that ended that way
    starts,        \* c.Start() calls of the current cycle
    cancels,       \* supervisor cancel() calls of the current cycle
    startedSince,  \* c.Start() was called since the relay last received a name
    \* ---- watcher side (SpecWatch)
    targets, patterns, ignores, filtOp,   \* configuration
    fs,            \* the paths that exist
    unreadable,    \* directories that cannot be listed or watched
    watchSet,      \* paths registered with the watch backend (w.Add)
    events,        \* the backend's undelivered events
    received,      \* names the consumer of modC has received
    fsOps,         \* number of file system operations performed
    \* ---- history variables of the watcher side
    lastWalk,      \* the last top-level addDirRecursive call and its outcome
    lastEvent,     \* the event the router handled last
    born,          \* paths created since the watcher started, still existing
    \* ---- one run of the command with stdin forwarding (SpecStdin)
    sigchld,       \* sigchldC (buffer 1) holds a SIGCHLD notification
    watchPc,       \* watchChild goroutine: "idle" | "select" | "wait4"
                   \* | "cancel" | "cancelErr" | "returned"
    waitPc,        \* c.Wait goroutine: "idle" | "procWait" | "awaitCopy" | "closed"
    copyPc,        \* the goroutine copying c.Stdin to the child: "idle"|"read"|"eof"
    childctxDone,  \* runCmd's childctx is cancelled
    werrC,         \* werrC (buffer 1) holds watchChild's error
    inPc,          \* the goroutine reading os.Stdin (385-392): "idle" | "read"
                   \* | "send" (it offers a chunk on stdinC)
    nread,         \* number of chunks read from os.Stdin so far
    fed,           \* history: the chunks stdinReader.Read has handed out, each
                   \* with the state of the process and of childctx at that time
    \* ---- the polling watch backend (SpecPoll, fspoll/poller.go)
    pfs,           \* path -> [ex, mode, mt]: exists, mode bits, modtime and size
    pdenied,       \* paths refused with EACCES: a directory os.ReadDir fails
                   \* on, an entry de.Info() fails on, or "." when os.Stat of
                   \* the watched name itself fails
    pclosed,       \* p.closed; p.ctx is cancelled with it (Close)
    cancellers,    \* p.cancellers: name -> polling loop (0: not registered)
    loops,         \* the goroutines Add started: loop -> its locals and position
    adding,        \* the loop an Add holding p.mu waits for (0: p.mu is free)
    pevents,       \* p.events (buffer 1)
    perrors,       \* p.errors (buffer 1)
    pchClosed,     \* the channels of the Poller that have been closed
    ret,           \* the call of Add, Remove or Close made in the last step: <<op,
                   \* name, result>>; <<>> after any other step
    \* ---- history variables of the polling backend
    pollOps,       \* number of file system operations performed
    logging,       \* sent and opLog are kept (SpecPair)
    sent,          \* events put on p.events so far
    opLog,         \* operations performed on watched paths, as (path, op)
    spaced,        \* no operation so far hit a path whose last change no tick
                   \* had seen yet
    removedOk,     \* names a Remove call deregistered, not added since
    \* ---- one call of killChilds (SpecKill, part_007 135-142)
    ksig,          \* the signal killChilds is called with
    killPc,        \* "idle" | "call" | "cont" | "ret"
    kcalls,        \* the syscall.Kill calls made so far: <<signal, succeeded>>
    grp,           \* the process group: "running" | "stopped" | "ended"
    kpending       \* signals the stopped group has not acted on yet

supVars == <<autorestart, ctxDone, mainPc, fwdPc, relayPc, supPc, cmdctxDone,
             restart, done, cmdPc, child, orphans, cause, accepted, starts,
             cancels, startedSince>>
chanVars == <<modC, errC, routerPc>>
watchVars == <<targets, patterns, ignores, filtOp, fs, unreadable, watchSet,
               events, received, fsOps, lastWalk, lastEvent, born>>
stdinVars == <<sigchld, watchPc, waitPc, copyPc, childctxDone, werrC, inPc, nread, fed>>
pollVars == <<pfs, pdenied, pclosed, cancellers, loops, adding, pevents, perrors, pchClosed,
              ret, pollOps, logging, sent, opLog, spaced, removedOk>>
killVars == <<ksig, killPc, kcalls, grp, kpending>>
restVars == <<stdinVars, pollVars, killVars>>
vars == <<supVars, chanVars, watchVars, restVars>>

\* ------------------------------------------------------------------ bounds
MaxOrphans == 1     \* failed signal deliveries that leave a process behind
MaxPending == 2     \* names the router of Spec sends for one event
MaxChunks == 2      \* chunks read from the standard input (SpecInput)

\* ------------------------------------------------- process supervisor (Spec)

\* The process is over once main returned (140) or log.Fatalf ran (121, 128).
Running == mainPc # "exit" /\ fwdPc # "fatal"

\* cmdctx is a child of ctx (404): it is done when either was cancelled.
CmdctxIsDone == ctxDone \/ cmdctxDone

\* A bug the supervisor could have: it also takes triggers during the delay.
TriggerReadyAlsoInDelay ==
    /\ supPc \in {"select423", "delay435"}
    /\ ~ctxDone
    /\ ~restart

\* The supervisor is blocked in the select of line 423 with no other case
\* ready: only then does the relay's non-blocking send (366) find a receiver.
TriggerReady ==
    /\ supPc = "select423"
    /\ ~ctxDone
    /\ ~restart

\* main, 134-138: a termination signal arrives; cancel().
MainSignal ==
    /\ Running
    /\ mainPc = "waitSig"
    /\ ctxDone' = TRUE
    /\ mainPc' = "wgWait"
    /\ UNCHANGED <<autorestart, fwdPc, relayPc, supPc, cmdctxDone, restart, done,
                   cmdPc, child, orphans, cause, accepted, starts, cancels, startedSince>>
    /\ UNCHANGED <<chanVars, watchVars, restVars>>

\* main, 139-140: wg.Wait() returns once the supervisor ran wg.Done (397).
MainExit ==
    /\ Running
    /\ mainPc = "wgWait"
    /\ supPc = "returned"
    /\ mainPc' = "exit"
    /\ UNCHANGED <<autorestart, ctxDone, fwdPc, relayPc, supPc, cmdctxDone, restart,
                   done, cmdPc, child, orphans, cause, accepted, starts, cancels, startedSince>>
    /\ UNCHANGED <<chanVars, watchVars, restVars>>

\* forwarder, 115-116.
FwdCtxDone ==
    /\ Running
    /\ fwdPc = "select"
    /\ ctxDone
    /\ fwdPc' = "returned"
    /\ UNCHANGED <<autorestart, ctxDone, mainPc, relayPc, supPc, cmdctxDone, restart,
                   done, cmdPc, child, orphans, cause, accepted, starts, cancels, startedSince>>
    /\ UNCHANGED <<chanVars, watchVars, restVars>>

\* forwarder, 117 and 124: receive a name from the router; next: reload <- name.
\* (The !ok branch of 118-123 cannot run: the router returns only after its
\* errC send was received, and the forwarder never selects again after that.)
FwdRecvMod ==
    /\ Running
    /\ fwdPc = "select"
    /\ modC # <<>>
    /\ modC' = Tail(modC)
    /\ fwdPc' = "sendReload"
    /\ UNCHANGED <<autorestart, ctxDone, mainPc, relayPc, supPc, cmdctxDone, restart,
                   done, cmdPc, child, orphans, cause, accepted, starts, cancels, startedSince>>
    /\ UNCHANGED <<errC, routerPc, watchVars, restVars>>

\* forwarder, 125-127: receive the router's error, cancel(), then wg.Wait().
\* The router's send completes and the router returns (its defer closes modC).
FwdRecvErr ==
    /\ Running
    /\ fwdPc = "select"
    /\ errC
    /\ errC' = FALSE
    /\ routerPc' = "returned"
    /\ ctxDone' = TRUE
    /\ fwdPc' = "wgWait"
    /\ UNCHANGED <<autorestart, mainPc, relayPc, supPc, cmdctxDone, restart, done,
                   cmdPc, child, orphans, cause, accepted, starts, cancels, startedSince>>
    /\ UNCHANGED <<modC, watchVars, restVars>>

\* forwarder, 127-128: wg.Wait() returned; log.Fatalf ends the process.
FwdFatal ==
    /\ Running
    /\ fwdPc = "wgWait"
    /\ supPc = "returned"
    /\ fwdPc' = "fatal"
    /\ UNCHANGED <<autorestart, ctxDone, mainPc, relayPc, supPc, cmdctxDone, restart,
                   done, cmdPc, child, orphans, cause, accepted, starts, cancels, startedSince>>
    /\ UNCHANGED <<chanVars, watchVars, restVars>>

\* relay, 363: receive from reload (the forwarder's blocked send completes).
RelayRecv ==
    /\ Running
    /\ relayPc = "range"
    /\ fwdPc = "sendReload"
    /\ relayPc' = "try"
    /\ fwdPc' = "select"
    /\ startedSince' = FALSE
    /\ UNCHANGED <<autorestart, ctxDone, mainPc, supPc, cmdctxDone, restart, done,
                   cmdPc, child, orphans, cause, accepted, starts, cancels>>
    /\ UNCHANGED <<chanVars, watchVars, restVars>>

\* A bug the relay could have: a plain send on trigger, which waits until the
\* supervisor receives.
RelayBlockingSend ==
    /\ Running
    /\ relayPc = "try"
    /\ TriggerReady
    /\ relayPc' = "range"
    /\ supPc' = "delay435"
    /\ cause' = "trigger"
    /\ accepted' = accepted + 1
    /\ UNCHANGED <<autorestart, ctxDone, mainPc, fwdPc, cmdctxDone, restart, done,
                   cmdPc, child, orphans, starts, cancels, startedSince>>
    /\ UNCHANGED <<chanVars, watchVars, restVars>>

\* relay, 365-368: non-blocking send on trigger; the supervisor's receive of
\* line 428 happens in the same step.  Otherwise the name is dropped.
RelayTrySend ==
    /\ Running
    /\ relayPc = "try"
    /\ relayPc' = "range"
    /\ IF TriggerReady
       THEN supPc' = "delay435" /\ cause' = "trigger" /\ accepted' = accepted + 1
       ELSE UNCHANGED <<supPc, cause, accepted>>
    /\ UNCHANGED <<autorestart, ctxDone, mainPc, fwdPc, cmdctxDone, restart, done,
                   cmdPc, child, orphans, starts, cancels, startedSince>>
    /\ UNCHANGED <<chanVars, watchVars, restVars>>

\* supervisor, 399-403: leave the loop when the outer context is done.
SupCheck ==
    /\ Running
    /\ supPc = "check"
    /\ supPc' = IF ctxDone THEN "returned" ELSE "spawn"
    /\ UNCHANGED <<autorestart, ctxDone, mainPc, fwdPc, relayPc, cmdctxDone, restart,
                   done, cmdPc, child, orphans, cause, accepted, starts, cancels, startedSince>>
    /\ UNCHANGED <<chanVars, watchVars, restVars>>

\* supervisor, 404-408: new cmdctx, restart and done; start the goroutine
\* that runs the command.
SupSpawn ==
    /\ Running
    /\ supPc = "spawn"
    /\ supPc' = "toSelect"
    /\ cmdctxDone' = FALSE
    /\ restart' = FALSE
    /\ done' = FALSE
    /\ cmdPc' = "start"
    /\ child' = "none"
    /\ accepted' = 0
    /\ starts' = 0
    /\ cancels' = 0
    /\ UNCHANGED <<autorestart, ctxDone, mainPc, fwdPc, relayPc, orphans, cause,
                   startedSince>>
    /\ UNCHANGED <<chanVars, watchVars, restVars>>

\* supervisor, 423: reach the select and block in it.
SupPark ==
    /\ Running
    /\ supPc = "toSelect"
    /\ supPc' = "select423"
    /\ UNCHANGED <<autorestart, ctxDone, mainPc, fwdPc, relayPc, cmdctxDone, restart,
                   done, cmdPc, child, orphans, cause, accepted, starts, cancels, startedSince>>
    /\ UNCHANGED <<chanVars, watchVars, restVars>>

\* supervisor, 424-425 and 436-437: the outer context is done; cancel().
SupCtxDone ==
    /\ Running
    /\ supPc \in {"select423", "delay435"}
    /\ ctxDone
    /\ cmdctxDone' = TRUE
    /\ cancels' = cancels + 1
    /\ supPc' = "shutWait"
    /\ UNCHANGED <<autorestart, ctxDone, mainPc, fwdPc, relayPc, restart, done, cmdPc,
                   child, orphans, cause, accepted, starts, startedSince>>
    /\ UNCHANGED <<chanVars, watchVars, restVars>>

\* A supervisor that begins the next cycle as soon as restart is closed,
\* without the delay.
SupRestartSkipsDelay ==
    /\ Running
    /\ supPc = "select423"
    /\ restart
    /\ supPc' = "check"
    /\ cause' = "restart"
    /\ accepted' = accepted + 1
    /\ UNCHANGED <<autorestart, ctxDone, mainPc, fwdPc, relayPc, cmdctxDone, restart,
                   done, cmdPc, child, orphans, starts, cancels, startedSince>>
    /\ UNCHANGED <<chanVars, watchVars, restVars>>

\* supervisor, 430-431: the restart channel was closed.
SupRestart ==
    /\ Running
    /\ supPc = "select423"
    /\ restart
    /\ supPc' = "delay435"
    /\ cause' = "restart"
    /\ accepted' = accepted + 1
    /\ UNCHANGED <<autorestart, ctxDone, mainPc, fwdPc, relayPc, cmdctxDone, restart,
                   done, cmdPc, child, orphans, starts, cancels, startedSince>>
    /\ UNCHANGED <<chanVars, watchVars, restVars>>

\* A supervisor that waits for done after the delay without cancel().
SupDelayOverNoCancel ==
    /\ Running
    /\ supPc = "delay435"
    /\ supPc' = "waitDone443"
    /\ UNCHANGED <<autorestart, ctxDone, mainPc, fwdPc, relayPc, cmdctxDone, restart,
                   done, cmdPc, child, orphans, cause, accepted, starts, cancels, startedSince>>
    /\ UNCHANGED <<chanVars, watchVars, restVars>>

\* supervisor, 440-442: the delay has passed; cancel().
SupDelayOver ==
    /\ Running
    /\ supPc = "delay435"
    /\ cmdctxDone' = TRUE
    /\ cancels' = cancels + 1
    /\ supPc' = "waitDone443"
    /\ UNCHANGED <<autorestart, ctxDone, mainPc, fwdPc, relayPc, restart, done, cmdPc,
                   child, orphans, cause, accepted, starts, startedSince>>
    /\ UNCHANGED <<chanVars, watchVars, restVars>>

\* supervisor, 443: <-done, then the next cycle.
SupWaitDone ==
    /\ Running
    /\ supPc = "waitDone443"
    /\ done
    /\ supPc' = "check"
    /\ UNCHANGED <<autorestart, ctxDone, mainPc, fwdPc, relayPc, cmdctxDone, restart,
                   done, cmdPc, child, orphans, cause, accepted, starts, cancels, startedSince>>
    /\ UNCHANGED <<chanVars, watchVars, restVars>>

\* supervisor, 426-427 and 438-439: <-done, return, deferred wg.Done (397).
SupShutDone ==
    /\ Running
    /\ supPc = "shutWait"
    /\ done
    /\ supPc' = "returned"
    /\ UNCHANGED <<autorestart, ctxDone, mainPc, fwdPc, relayPc, cmdctxDone, restart,
                   done, cmdPc, child, orphans, cause, accepted, starts, cancels, startedSince>>
    /\ UNCHANGED <<chanVars, watchVars, restVars>>

\* What runCmd leaves behind when it returns without waiting for c.Wait().
Abandon(c) == IF c = "alive" THEN "none" ELSE c

\* cmd goroutine, 409-410 and runCmd 451-465: c.Start() launches the process
\* or fails.  The context is not consulted before the launch.
CmdStart ==
    /\ Running
    /\ cmdPc = "start"
    /\ starts' = starts + 1
    /\ startedSince' = TRUE
    /\ \/ cmdPc' = "select486" /\ child' = "alive"
       \/ cmdPc' = "ret" /\ child' = child
    /\ UNCHANGED <<autorestart, ctxDone, mainPc, fwdPc, relayPc, supPc, cmdctxDone,
                   restart, done, orphans, cause, accepted, cancels>>
    /\ UNCHANGED <<chanVars, watchVars, restVars>>

\* runCmd, 481-484: c.Wait() reaps the exited process and closes runCmd's done.
Reap ==
    /\ Running
    /\ child = "exited"
    /\ child' = "reaped"
    /\ UNCHANGED <<autorestart, ctxDone, mainPc, fwdPc, relayPc, supPc, cmdctxDone,
                   restart, done, cmdPc, orphans, cause, accepted, starts, cancels, startedSince>>
    /\ UNCHANGED <<chanVars, watchVars, restVars>>

\* runCmd, 486-494: the process was reaped (return), or the context is done.
\* Without stdin forwarding werrC is nil and its case never fires.
CmdSelect486 ==
    /\ Running
    /\ cmdPc = "select486"
    /\ \/ child = "reaped" /\ cmdPc' = "ret"
       \/ CmdctxIsDone /\ cmdPc' = "kill496"
    /\ UNCHANGED <<autorestart, ctxDone, mainPc, fwdPc, relayPc, supPc, cmdctxDone,
                   restart, done, child, orphans, cause, accepted, starts, cancels, startedSince>>
    /\ UNCHANGED <<chanVars, watchVars, restVars>>

\* runCmd, 496-498: killChilds(c, sig).  On success go on to the grace wait;
\* on an error (EPERM for a process that changed its credentials, ESRCH for a
\* group that is gone) runCmd returns at once, without waiting for c.Wait().
CmdKill496 ==
    /\ Running
    /\ cmdPc = "kill496"
    /\ \/ /\ cmdPc' = "select500"
          /\ UNCHANGED <<child, orphans>>
       \/ /\ child = "alive" => orphans < MaxOrphans
          /\ cmdPc' = "ret"
          /\ orphans' = IF child = "alive" THEN orphans + 1 ELSE orphans
          /\ child' = Abandon(child)
    /\ UNCHANGED <<autorestart, ctxDone, mainPc, fwdPc, relayPc, supPc, cmdctxDone,
                   restart, done, cause, accepted, starts, cancels, startedSince>>
    /\ UNCHANGED <<chanVars, watchVars, restVars>>

\* A grace wait whose timer can win although done is already closed.
CmdSelect500TimerAnyway ==
    /\ Running
    /\ cmdPc = "select500"
    /\ \/ child = "reaped" /\ cmdPc' = "ret"
       \/ cmdPc' = "kill503"
    /\ UNCHANGED <<autorestart, ctxDone, mainPc, fwdPc, relayPc, supPc, cmdctxDone,
                   restart, done, child, orphans, cause, accepted, starts, cancels, startedSince>>
    /\ UNCHANGED <<chanVars, watchVars, restVars>>

\* runCmd, 500-502 and 509-512: the goroutine blocks in the select right
\* after the signal was sent, with the timer of time.After(waitForTerm)
\* started at that moment; the first of the two events decides.  Either
\* c.Wait() returned and closed done within waitForTerm (return), or the
\* timer fired while done was still open.  The length of the window is not
\* modelled: the timer may fire at any moment at which done is open.
CmdSelect500 ==
    /\ Running
    /\ cmdPc = "select500"
    /\ \/ child = "reaped" /\ cmdPc' = "ret"
       \/ child # "reaped" /\ cmdPc' = "kill503"
    /\ UNCHANGED <<autorestart, ctxDone, mainPc, fwdPc, relayPc, supPc, cmdctxDone,
                   restart, done, child, orphans, cause, accepted, starts, cancels, startedSince>>
    /\ UNCHANGED <<chanVars, watchVars, restVars>>

\* runCmd, 503-505: killChilds(c, SIGKILL).  A delivered SIGKILL ends the
\* process; on an error runCmd returns at once.
CmdKill503 ==
    /\ Running
    /\ cmdPc = "kill503"
    /\ \/ /\ cmdPc' = "wait506"
          /\ child' = IF child = "alive" THEN "exited" ELSE child
          /\ UNCHANGED orphans
       \/ /\ child = "alive" => orphans < MaxOrphans
          /\ cmdPc' = "ret"
          /\ orphans' = IF child = "alive" THEN orphans + 1 ELSE orphans
          /\ child' = Abandon(child)
    /\ UNCHANGED <<autorestart, ctxDone, mainPc, fwdPc, relayPc, supPc, cmdctxDone,
                   restart, done, cause, accepted, starts, cancels, startedSince>>
    /\ UNCHANGED <<chanVars, watchVars, restVars>>

\* runCmd, 506 and 509-512: <-done without a timeout, then return.
CmdWait506 ==
    /\ Running
    /\ cmdPc = "wait506"
    /\ child = "reaped"
    /\ cmdPc' = "ret"
    /\ UNCHANGED <<autorestart, ctxDone, mainPc, fwdPc, relayPc, supPc, cmdctxDone,
                   restart, done, child, orphans, cause, accepted, starts, cancels, startedSince>>
    /\ UNCHANGED <<chanVars, watchVars, restVars>>

\* A bug the goroutine could have: it closes restart whatever the flag says.
CmdRetAlwaysRestart ==
    /\ Running
    /\ cmdPc = "ret"
    /\ restart' = TRUE
    /\ cmdPc' = "closeDone"
    /\ UNCHANGED <<autorestart, ctxDone, mainPc, fwdPc, relayPc, supPc, cmdctxDone,
                   done, child, orphans, cause, accepted, starts, cancels, startedSince>>
    /\ UNCHANGED <<chanVars, watchVars, restVars>>

\* A bug the goroutine could have: it never closes restart.
CmdRetNeverRestart ==
    /\ Running
    /\ cmdPc = "ret"
    /\ cmdPc' = "closeDone"
    /\ UNCHANGED <<autorestart, ctxDone, mainPc, fwdPc, relayPc, supPc, cmdctxDone,
                   restart, done, child, orphans, cause, accepted, starts, cancels, startedSince>>
    /\ UNCHANGED <<chanVars, watchVars, restVars>>

\* cmd goroutine, 411-418: runCmd returned; close(restart) if autorestart.
CmdRet ==
    /\ Running
    /\ cmdPc = "ret"
    /\ restart' = (restart \/ autorestart)
    /\ cmdPc' = "closeDone"
    /\ UNCHANGED <<autorestart, ctxDone, mainPc, fwdPc, relayPc, supPc, cmdctxDone,
                   done, child, orphans, cause, accepted, starts, cancels, startedSince>>
    /\ UNCHANGED <<chanVars, watchVars, restVars>>

\* cmd goroutine, 420: close(done).
CmdCloseDone ==
    /\ Running
    /\ cmdPc = "closeDone"
    /\ done' = TRUE
    /\ cmdPc' = "idle"
    /\ UNCHANGED <<autorestart, ctxDone, mainPc, fwdPc, relayPc, supPc, cmdctxDone,
                   restart, child, orphans, cause, accepted, starts, cancels, startedSince>>
    /\ UNCHANGED <<chanVars, watchVars, restVars>>

\* The command ends on its own (or in reaction to a signal it received).
ChildExit ==
    /\ child = "alive"
    /\ child' = "exited"
    /\ UNCHANGED <<autorestart, ctxDone, mainPc, fwdPc, relayPc, supPc, cmdctxDone,
                   restart, done, cmdPc, orphans, cause, accepted, starts, cancels, startedSince>>
    /\ UNCHANGED <<chanVars, watchVars, restVars>>

\* A process left behind by an earlier cycle ends.
OrphanExit ==
    /\ orphans > 0
    /\ orphans' = orphans - 1
    /\ UNCHANGED <<autorestart, ctxDone, mainPc, fwdPc, relayPc, supPc, cmdctxDone,
                   restart, done, cmdPc, child, cause, accepted, starts, cancels, startedSince>>
    /\ UNCHANGED <<chanVars, watchVars, restVars>>

\* The name of a changed file that matches a trigger pattern.
TrigName == <<"t", "f">>

\* router, 213-251 seen from the pipeline: handling one event makes the router
\* send up to MaxPending names on modC (234, 318), one after the other, before
\* it takes the next event.  SpecWatch has the router in full.
RouterNotify ==
    /\ Running
    /\ routerPc = "loop"
    /\ modC = <<>>
    /\ \E n \in 1..MaxPending : modC' = [i \in 1..n |-> TrigName]
    /\ UNCHANGED <<supVars, restVars, errC, routerPc, watchVars>>

\* router, 253-255 seen from the pipeline: a backend error is sent on errC.
RouterFail ==
    /\ Running
    /\ routerPc = "loop"
    /\ modC = <<>>
    /\ errC' = TRUE
    /\ routerPc' = "sendErr"
    /\ UNCHANGED <<supVars, restVars, modC, watchVars>>

\* The watcher side at rest: Spec sees the router only through modC and errC.
WatchIdle ==
    /\ targets = <<>>
    /\ patterns = <<>>
    /\ ignores = <<>>
    /\ filtOp = {}
    /\ fs = {}
    /\ unreadable = {}
    /\ watchSet = {}
    /\ events = <<>>
    /\ received = {}
    /\ fsOps = 0
    /\ lastWalk = [root |-> <<>>, ok |-> TRUE, n |-> 0]
    /\ lastEvent = [name |-> <<>>, op |-> {}]
    /\ born = {}

\* No command runs with stdin forwarding: Spec is the program with --nostdin,
\* where runCmd starts neither watchChild nor a copier for c.Stdin (457, 468).
StdinIdle ==
    /\ sigchld = FALSE
    /\ watchPc = "idle"
    /\ waitPc = "idle"
    /\ copyPc = "idle"
    /\ childctxDone = FALSE
    /\ werrC = FALSE
    /\ inPc = "idle"
    /\ nread = 0
    /\ fed = <<>>

\* No Poller exists: the watcher of SpecWatch is the native one (103,
\* fspoll.Wrap(fsnotify.NewWatcher())).
PollIdle ==
    /\ pfs = <<>>
    /\ pdenied = {}
    /\ pclosed = FALSE
    /\ cancellers = <<>>
    /\ loops = <<>>
    /\ adding = 0
    /\ pevents = <<>>
    /\ perrors = <<>>
    /\ pchClosed = {}
    /\ ret = <<>>
    /\ pollOps = 0
    /\ logging = FALSE
    /\ sent = {}
    /\ opLog = {}
    /\ spaced = TRUE
    /\ removedOk = {}

\* What a specification that does not look at them keeps fixed.
\* No call of killChilds is looked at.
KillIdle ==
    /\ ksig = "SIGTERM"
    /\ killPc = "idle"
    /\ kcalls = <<>>
    /\ grp = "running"
    /\ kpending = {}

RestIdle == StdinIdle /\ PollIdle /\ KillIdle

\* The supervisor side right after runner() returned (110): the relay and the
\* supervisor goroutine exist, no command has been started yet.
SupInit ==
    /\ ctxDone = FALSE
    /\ mainPc = "waitSig"
    /\ fwdPc = "select"
    /\ relayPc = "range"
    /\ supPc = "check"
    /\ cmdctxDone = FALSE
    /\ restart = FALSE
    /\ done = FALSE
    /\ cmdPc = "idle"
    /\ child = "none"
    /\ orphans = 0
    /\ cause = "none"
    /\ accepted = 0
    /\ starts = 0
    /\ cancels = 0
    /\ startedSince = FALSE

Init ==
    /\ autorestart \in BOOLEAN
    /\ SupInit
    /\ modC = <<>>
    /\ errC = FALSE
    /\ routerPc = "loop"
    /\ WatchIdle
    /\ RestIdle

MainNext == MainSignal \/ MainExit
FwdNext == FwdCtxDone \/ FwdRecvMod \/ FwdRecvErr \/ FwdFatal
RelayNext == RelayRecv \/ RelayTrySend
SupNext ==
    \/ SupCheck
    \/ SupSpawn
    \/ SupPark
    \/ SupCtxDone
    \/ SupRestart
    \/ SupDelayOver
    \/ SupWaitDone
    \/ SupShutDone
CmdNext ==
    \/ CmdStart
    \/ CmdSelect486
    \/ CmdKill496
    \/ CmdSelect500
    \/ CmdKill503
    \/ CmdWait506
    \/ CmdRet
    \/ CmdCloseDone
EnvNext == ChildExit \/ OrphanExit \/ RouterNotify \/ RouterFail

Next == MainNext \/ FwdNext \/ RelayNext \/ SupNext \/ CmdNext \/ Reap \/ EnvNext

Spec == Init /\ [][Next]_vars

\* Every goroutine that can take a step eventually takes one, and timers
\* fire.  Nothing is assumed of the environment: signals, file changes and
\* the command's own exit may or may not happen.
Fairness ==
    /\ WF_vars(MainExit)
    /\ WF_vars(FwdNext)
    /\ WF_vars(RelayNext)
    /\ WF_vars(SupNext)
    /\ WF_vars(CmdNext)
    /\ WF_vars(Reap)

FairSpec == Spec /\ Fairness

\* Only the forwarder and the relay are scheduled; the supervisor may stay
\* wherever it is for as long as it likes.
PipelineSpec == Spec /\ WF_vars(FwdNext) /\ WF_vars(RelayNext)

\* ------------------------------------------------- watcher side (SpecWatch)
\* A path is the sequence of its components.  "t" and "s" are directories
\* given as targets, "u" is a file given as target, "x" is a target that does
\* not exist.  Below a directory, "d" and "i" are directories and "f" is a
\* file; "i" is the name the ignore pattern matches.  Targets are clean
\* relative paths, so path.Clean (281) and the "./" strip of matchPatterns
\* (264-266) leave every name of the model as it is.
MaxDepth == 2       \* directory levels below a target
MaxInit == 1        \* paths below "t" when the watcher of SpecWatch starts
MaxTree == 3        \* paths below "t" when the watcher of SpecSetup starts
MaxTargets == 2     \* targets on the command line of SpecSetup
MaxFsOps == 2       \* file system operations after the watcher started

RootNames == {"t", "s", "u", "x"}
DirNames == {"t", "s", "d", "i"}
ChildOrder == <<"d", "f", "i">>      \* os.ReadDir returns entries sorted by name
ChildNames == {ChildOrder[j] : j \in 1..Len(ChildOrder)}
AllOps == {"Create", "Write", "Remove", "Rename", "Chmod"}

Last(p) == p[Len(p)]
Parent(p) == SubSeq(p, 1, Len(p) - 1)
IsDir(p) == Last(p) \in DirNames

\* The paths at most k levels below p.
RECURSIVE Below(_, _)
Below(p, k) ==
    IF k = 0 \/ ~IsDir(p) THEN {}
    ELSE UNION {{Append(p, n)} \cup Below(Append(p, n), k - 1) : n \in ChildNames}

\* What exists in every initial file system, and what may change.
Base == {<<"t">>, <<"s">>, <<"s", "d">>, <<"u">>}
Mutable == Below(<<"t">>, MaxDepth)
\* The trees of at most k paths below "t".
RECURSIVE Trees(_)
Trees(k) ==
    IF k = 0 THEN {{}}
    ELSE LET T == Trees(k - 1)
             Ext(X) == {p \in Mutable \ X : Parent(p) \in X \cup {<<"t">>}}
         IN  T \cup UNION {{X \cup {p} : p \in Ext(X)} : X \in T}

\* doublestar.Match (268) on path components: "**" stands for any number of
\* components, "*" for any one component.
RECURSIVE GlobMatch(_, _)
GlobMatch(pat, t) ==
    IF pat = <<>> THEN t = <<>>
    ELSE IF Head(pat) = "**"
         THEN GlobMatch(Tail(pat), t) \/ (t # <<>> /\ GlobMatch(pat, Tail(t)))
         ELSE /\ t # <<>>
              /\ Head(pat) \in {"*", Head(t)}
              /\ GlobMatch(Tail(pat), Tail(t))

\* matchPatterns, 263-277: the first matching pattern decides.
matchPatterns(t, pats) == \E j \in 1..Len(pats) : GlobMatch(pats[j], t)

\* doublestar.Match fails on a malformed pattern (ErrBadPattern), "[" here,
\* and matchPatterns returns the error (269-271) unless a pattern before it
\* has matched (272-274).
BadPattern(pat) == \E k \in 1..Len(pat) : pat[k] = "["
matchErr(t, pats) ==
    \E j \in 1..Len(pats) :
        /\ BadPattern(pats[j])
        /\ \A i \in 1..(j - 1) : ~GlobMatch(pats[i], t)

\* w.Add (299, 290): the backend cannot watch what does not exist or what it
\* may not read.
CanAdd(t) == t \in fs /\ t \notin unreadable

\* os.ReadDir (303): the entries of t, sorted by name.
ReadDir(t) == SelectSeq(ChildOrder, LAMBDA n : Append(t, n) \in fs)

\* A walk's result so far: the watch set, the names sent on ch, and whether
\* the walk stopped with an error.
WalkStart == [ws |-> watchSet, sent |-> <<>>, err |-> FALSE]

\* A walker that registers a directory and does not descend.
addDirFlat(t, ch, acc) ==
    IF ~CanAdd(t) THEN [acc EXCEPT !.err = TRUE]
    ELSE [acc EXCEPT !.ws = @ \cup {t}]

\* A walker that sends nothing on ch.
RECURSIVE addDirSilent(_, _, _)
addDirSilent(t, ch, acc) ==
    IF ~CanAdd(t) THEN [acc EXCEPT !.err = TRUE]
    ELSE LET step(a, n) ==
                 LET name == Append(t, n) IN
                 IF a.err \/ matchPatterns(name, ignores) THEN a
                 ELSE IF IsDir(name) THEN addDirSilent(name, ch, a) ELSE a
             go[k \in 0..Len(ReadDir(t))] ==
                 IF k = 0 THEN [acc EXCEPT !.ws = @ \cup {t}]
                 ELSE step(go[k-1], ReadDir(t)[k])
         IN go[Len(ReadDir(t))]

\* A walker that leaves out a directory it cannot register or list and goes
\* on with the entries after it.
RECURSIVE addDirSkipping(_, _, _)
addDirSkipping(t, ch, acc) ==
    IF ~CanAdd(t) THEN acc
    ELSE LET step(a, n) ==
                 LET name == Append(t, n)
                     a1 == IF ch /\ matchPatterns(name, patterns)
                           THEN [a EXCEPT !.sent = Append(@, name)]
                           ELSE a
                 IN  IF a.err THEN a
                     ELSE IF matchErr(name, ignores) THEN [a EXCEPT !.err = TRUE]
                     ELSE IF matchPatterns(name, ignores) THEN a
                     ELSE IF ch /\ matchErr(name, patterns) THEN [a EXCEPT !.err = TRUE]
                     ELSE IF IsDir(name) THEN addDirSkipping(name, ch, a1) ELSE a1
             go[k \in 0..Len(ReadDir(t))] ==
                 IF k = 0 THEN [acc EXCEPT !.ws = @ \cup {t}]
                 ELSE step(go[k-1], ReadDir(t)[k])
         IN go[Len(ReadDir(t))]

\* addDirRecursive, 297-329.  w.Add(t) (299-302) and os.ReadDir(t) (303-306),
\* then the entries in order: an ignored entry is skipped (309-313); with a
\* channel, a matching entry is sent (314-320); a directory is walked in
\* turn, and the first error ends the whole walk (321-326).
RECURSIVE addDirRecursive(_, _, _)
addDirRecursive(t, ch, acc) ==
    IF ~CanAdd(t) THEN [acc EXCEPT !.err = TRUE]
    ELSE IF t \in unreadable THEN [acc EXCEPT !.ws = @ \cup {t}, !.err = TRUE]
    ELSE LET step(a, n) ==
                 LET name == Append(t, n)
                     a1 == IF ch /\ matchPatterns(name, patterns)
                           THEN [a EXCEPT !.sent = Append(@, name)]
                           ELSE a
                 IN  IF a.err THEN a
                     ELSE IF matchErr(name, ignores) THEN [a EXCEPT !.err = TRUE]
                     ELSE IF matchPatterns(name, ignores) THEN a
                     ELSE IF ch /\ matchErr(name, patterns) THEN [a EXCEPT !.err = TRUE]
                     ELSE IF IsDir(name) THEN addDirRecursive(name, ch, a1) ELSE a1
             go[k \in 0..Len(ReadDir(t))] ==
                 IF k = 0 THEN [acc EXCEPT !.ws = @ \cup {t}]
                 ELSE step(go[k-1], ReadDir(t)[k])
         IN go[Len(ReadDir(t))]

\* A set-up that hands the walker a channel, as the router does.
RECURSIVE addTargetsReporting(_, _)
addTargetsReporting(ts, acc) ==
    IF ts = <<>> THEN acc
    ELSE IF Head(ts) \notin fs THEN [acc EXCEPT !.err = TRUE]
    ELSE IF IsDir(Head(ts)) THEN addDirRecursive(Head(ts), TRUE, acc)
    ELSE IF ~CanAdd(Head(ts)) THEN [acc EXCEPT !.err = TRUE]
    ELSE addTargetsReporting(Tail(ts), [acc EXCEPT !.ws = @ \cup {Head(ts)}])

\* addTargets, 279-295: os.Stat (282-285); a directory is walked without a
\* channel and the walk's result is returned (286-288), so the targets after
\* it are not visited; a file is added (290-292) and the loop goes on.
RECURSIVE addTargets(_, _)
addTargets(ts, acc) ==
    IF ts = <<>> THEN acc
    ELSE IF Head(ts) \notin fs THEN [acc EXCEPT !.err = TRUE]
    ELSE IF IsDir(Head(ts)) THEN addDirRecursive(Head(ts), FALSE, acc)
    ELSE IF ~CanAdd(Head(ts)) THEN [acc EXCEPT !.err = TRUE]
    ELSE addTargets(Tail(ts), [acc EXCEPT !.ws = @ \cup {Head(ts)}])

\* The directory target addTargets walks: the first directory among the
\* targets, if every target before it exists.
RECURSIVE WalkedTarget(_)
WalkedTarget(ts) ==
    IF ts = <<>> \/ Head(ts) \notin fs THEN <<>>
    ELSE IF IsDir(Head(ts)) THEN Head(ts)
    ELSE IF ~CanAdd(Head(ts)) THEN <<>>
    ELSE WalkedTarget(Tail(ts))

\* event.Has (229, 239): the event carries one of the operations of h.
Has(op, h) == op \cap h # {}
watchOp == AllOps \ filtOp           \* 207

\* 238-244: the event makes the router walk a directory.
Walks(event) ==
    /\ ~matchPatterns(event.name, ignores)
    /\ Has(event.op, {"Create"})
    /\ event.name \in fs
    /\ IsDir(event.name)

\* A router that walks a created directory only if Create is not filtered.
RouterHandleFilteredWalk(event) ==
    LET name == event.name
        start == IF Has(event.op, watchOp) /\ matchPatterns(name, patterns)
                 THEN [WalkStart EXCEPT !.sent = <<name>>]
                 ELSE WalkStart
    IN  IF matchPatterns(name, ignores) THEN WalkStart
        ELSE IF Walks(event) /\ Has(event.op, watchOp)
          THEN addDirRecursive(name, TRUE, start)
        ELSE start

\* A router that tests the trigger patterns before the ignore patterns.
RouterHandlePatternFirst(event) ==
    LET name == event.name
        start == IF Has(event.op, watchOp) /\ matchPatterns(name, patterns)
                 THEN [WalkStart EXCEPT !.sent = <<name>>]
                 ELSE WalkStart
    IN  IF matchPatterns(name, ignores) THEN start
        ELSE IF Walks(event) THEN addDirRecursive(name, TRUE, start)
        ELSE start

\* The router's handling of one event, 219-251: an ignored name ends it
\* (222-227); a name with a watched operation that matches a trigger pattern
\* is sent (229-236); a created directory is walked with modC as the walk's
\* channel (239-251).  The result is what is registered, what is sent on
\* modC, in order, and whether the walk failed.
RouterHandle(event) ==
    LET name == event.name
        start == IF Has(event.op, watchOp) /\ matchPatterns(name, patterns)
                 THEN [WalkStart EXCEPT !.sent = <<name>>]
                 ELSE WalkStart
    IN  IF matchPatterns(name, ignores) THEN WalkStart
        ELSE IF Walks(event) THEN addDirRecursive(name, TRUE, start)
        ELSE start

\* watcher, 196-203: the targets are registered before the router starts.  An
\* error makes main stop before it creates the supervisor (103-106).
watcher ==
    /\ routerPc = "setup"
    /\ LET r == addTargets(targets, WalkStart)
           t == WalkedTarget(targets)
       IN  /\ watchSet' = r.ws
           /\ routerPc' = IF r.err THEN "failed" ELSE "loop"
           /\ lastWalk' = IF t # <<>>
                          THEN [root |-> t, ok |-> ~r.err, n |-> lastWalk.n + 1]
                          ELSE lastWalk
    /\ UNCHANGED <<supVars, restVars, modC, errC, targets, patterns, ignores, filtOp, fs,
                   unreadable, events, received, fsOps, lastEvent, born>>

\* The router stops on a failure of the pattern matcher: on the ignore
\* patterns (222-224) or, for a name that is not ignored and an operation
\* that is watched, on the trigger patterns (230-232).
RouterMatchFails(event) ==
    \/ matchErr(event.name, ignores)
    \/ /\ ~matchPatterns(event.name, ignores)
       /\ Has(event.op, watchOp)
       /\ matchErr(event.name, patterns)

\* A router that takes a failing os.Stat for a failed walk.
RouterHandleStatFatal(event, denied) ==
    IF RouterMatchFails(event) THEN [WalkStart EXCEPT !.err = TRUE]
    ELSE IF denied /\ Walks(event)
      THEN [WalkStart EXCEPT !.err = TRUE,
                             !.sent = IF Has(event.op, watchOp)
                                         /\ matchPatterns(event.name, patterns)
                                      THEN <<event.name>> ELSE <<>>]
    ELSE RouterHandle(event)

\* The handling of one event with the failures of 222-251: a failure of the
\* matcher ends it with an error and nothing sent; an os.Stat that fails
\* although the path exists (EACCES on a directory above it) is logged
\* like one that finds nothing (240-243), and no walk is made.
RouterHandleStat(event, denied) ==
    IF RouterMatchFails(event) THEN [WalkStart EXCEPT !.err = TRUE]
    ELSE IF denied /\ Walks(event)
      THEN IF Has(event.op, watchOp) /\ matchPatterns(event.name, patterns)
           THEN [WalkStart EXCEPT !.sent = <<event.name>>]
           ELSE WalkStart
    ELSE RouterHandle(event)

\* router, 213-251: one event is taken and handled; denied tells whether
\* os.Stat (240) is refused.  The sends on modC block until the receiver
\* takes them, so the next event is taken only when modC is empty again; a
\* failed walk is sent on errC after them (246-248).
RouterTake(denied) ==
    /\ routerPc = "loop"
    /\ modC = <<>>
    /\ events # <<>>
    /\ LET event == Head(events)
           r == RouterHandleStat(event, denied)
           walked == Walks(event) /\ ~denied /\ ~RouterMatchFails(event)
       IN  /\ events' = Tail(events)
           /\ lastEvent' = event
           /\ modC' = r.sent
           /\ watchSet' = r.ws
           /\ errC' = r.err
           /\ routerPc' = IF r.err THEN "sendErr" ELSE "loop"
           /\ lastWalk' = IF walked
                          THEN [root |-> event.name, ok |-> ~r.err, n |-> lastWalk.n + 1]
                          ELSE lastWalk
    /\ UNCHANGED <<supVars, restVars, targets, patterns, ignores, filtOp, fs, unreadable,
                   received, fsOps, born>>

\* The router of SpecWatch: every path can be looked at with os.Stat.
RouterEvent == RouterTake(FALSE)

\* The receiver of modC (117; arelo_test.go 55) takes the next name.
RecvMod ==
    /\ modC # <<>>
    /\ received' = received \cup {Head(modC)}
    /\ modC' = Tail(modC)
    /\ UNCHANGED <<supVars, restVars, errC, routerPc, targets, patterns, ignores, filtOp, fs,
                   unreadable, watchSet, events, fsOps, lastWalk, lastEvent, born>>

\* The receiver of errC (125; arelo_test.go 62) takes the error; the router
\* returns (248).
RecvErr ==
    /\ routerPc = "sendErr"
    /\ errC
    /\ modC = <<>>
    /\ errC' = FALSE
    /\ routerPc' = "returned"
    /\ UNCHANGED <<supVars, restVars, modC, watchVars>>

\* The backend reports a change of p when p or its directory is registered.
Watched(p) == p \in watchSet \/ Parent(p) \in watchSet
Emit(p, op) ==
    IF Watched(p) THEN Append(events, [name |-> p, op |-> {op}]) ELSE events

\* What every file system operation of the environment has in common: it
\* happens while the router runs, below "t".
FsOp(p) ==
    /\ routerPc = "loop"
    /\ fsOps < MaxFsOps
    /\ fsOps' = fsOps + 1
    /\ UNCHANGED <<supVars, restVars, chanVars, targets, patterns, ignores, filtOp, unreadable,
                   received, lastWalk, lastEvent>>

\* A file or an empty directory is created.
FsCreate ==
    \E p \in Mutable \ fs :
        /\ Parent(p) \in fs
        /\ FsOp(p)
        /\ fs' = fs \cup {p}
        /\ born' = born \cup {p}
        /\ events' = Emit(p, "Create")
        /\ UNCHANGED watchSet

\* A directory p that already holds an entry q is moved in
\* (arelo_test.go 34-37): the backend reports the creation of p only.
FsMoveIn ==
    \E p \in Mutable \ fs, n \in ChildNames :
        /\ Parent(p) \in fs
        /\ Append(p, n) \in Mutable
        /\ FsOp(p)
        /\ fs' = fs \cup {p, Append(p, n)}
        /\ born' = born \cup {p, Append(p, n)}
        /\ events' = Emit(p, "Create")
        /\ UNCHANGED watchSet

\* A file is written.
FsWrite ==
    \E p \in Mutable \cap fs :
        /\ ~IsDir(p)
        /\ Watched(p)
        /\ FsOp(p)
        /\ events' = Emit(p, "Write")
        /\ UNCHANGED <<fs, born, watchSet>>

\* A file or an empty directory is removed; the backend drops its
\* registration.
FsRemove ==
    \E p \in Mutable \cap fs :
        /\ \A q \in fs : Parent(q) # p
        /\ FsOp(p)
        /\ fs' = fs \ {p}
        /\ born' = born \ {p}
        /\ watchSet' = watchSet \ {p}
        /\ events' = Emit(p, "Remove")

\* The command lines: -p and -i patterns, and the target lists of up to
\* MaxTargets different targets.
PatternLists == { << <<"**">> >>, << <<"**", "f">> >> }
IgnoreLists == { << <<"**", "i">> >> }
TargetLists ==
    {ts \in UNION {[1..k -> {<<n>> : n \in RootNames}] : k \in 1..MaxTargets} :
        \A j, k \in 1..Len(ts) : ts[j] = ts[k] => j = k}

\* The state before watcher() is called (103): nothing is registered and the
\* supervisor does not exist yet.
WatchZero ==
    /\ autorestart = FALSE
    /\ SupInit
    /\ modC = <<>>
    /\ errC = FALSE
    /\ routerPc = "setup"
    /\ watchSet = {}
    /\ events = <<>>
    /\ received = {}
    /\ fsOps = 0
    /\ lastWalk = [root |-> <<>>, ok |-> TRUE, n |-> 0]
    /\ lastEvent = [name |-> <<>>, op |-> {}]
    /\ born = {}
    /\ RestIdle

\* SpecWatch: the watcher with the one directory target "t", from its
\* start on, with the file system changing below "t".
InitWatch ==
    /\ WatchZero
    /\ targets = << <<"t">> >>
    /\ patterns \in PatternLists
    /\ ignores \in IgnoreLists
    /\ filtOp \in {{}, {"Create"}}
    /\ unreadable \in {{}, {<<"t", "d">>}}
    /\ \E X \in Trees(MaxInit) : fs = Base \cup X

\* SpecSetup: the set-up of the watcher for every list of targets.
InitSetup ==
    /\ WatchZero
    /\ targets \in TargetLists
    /\ patterns \in PatternLists
    /\ ignores \in IgnoreLists
    /\ filtOp = {}
    /\ unreadable \in {{}, {<<"t", "d">>}, {<<"s", "d">>}}
    /\ \E X \in Trees(MaxTree) : fs = Base \cup X

FsNext == FsCreate \/ FsMoveIn \/ FsWrite \/ FsRemove

NextWatch == watcher \/ RouterEvent \/ RecvMod \/ RecvErr \/ FsNext

SpecWatch == InitWatch /\ [][NextWatch]_vars

SpecSetup == InitSetup /\ [][watcher]_vars

\* SpecRoute: the router after a set-up that found the target "t" empty,
\* with what was created below "t" since, and the next event of the backend:
\* every event on an entry of "t" with one or two operations, pattern lists
\* that hold a malformed pattern, os.Stat refused or not.
BadPatternLists == { << <<"[">> >>, << <<"**", "f">>, <<"[">> >> }
BadIgnoreLists == { << <<"**", "i">>, <<"[">> >> }
RouteOps == {{"Create"}, {"Write"}, {"Chmod"}, {"Create", "Write"}, {"Write", "Chmod"}}

InitRoute ==
    /\ autorestart = FALSE
    /\ SupInit
    /\ modC = <<>>
    /\ errC = FALSE
    /\ routerPc = "loop"
    /\ RestIdle
    /\ targets = << <<"t">> >>
    /\ patterns \in PatternLists \cup BadPatternLists
    /\ ignores \in IgnoreLists \cup BadIgnoreLists
    /\ filtOp \in {{}, {"Create"}, {"Write"}}
    /\ unreadable \in {{}, {<<"t", "d">>}}
    /\ \E X \in Trees(MaxInit + 1) :
          /\ fs = Base \cup X
          /\ born = X
    /\ watchSet = {<<"t">>}
    /\ \E n \in ChildNames, op \in RouteOps :
          events = << [name |-> <<"t", n>>, op |-> op] >>
    /\ received = {}
    /\ fsOps = 0
    /\ lastWalk = [root |-> <<"t">>, ok |-> TRUE, n |-> 1]
    /\ lastEvent = [name |-> <<>>, op |-> {}]

NextRoute ==
    \/ \E denied \in BOOLEAN : RouterTake(denied)
    \/ RecvMod
    \/ RecvErr

SpecRoute == InitRoute /\ [][NextRoute]_vars

\* ------------------------------ one run with stdin forwarding (SpecStdin)
\* runCmd with stdinC # nil (451), from c.Start() to its return, on a unix
\* system, while nothing arrives on the real standard input: the input case of
\* stdinReader.Read (348) never fires.  Besides runCmd itself there are the
\* watchChild goroutine (470-476), the c.Wait goroutine (481-484) and the
\* goroutine os/exec starts to copy c.Stdin into the child's pipe, which
\* c.Wait() waits for (338-339).  The process is "alive", a zombie that
\* ended by exit ("exited") or by a signal ("killed"), or "reaped".

\* The variables of supVars this specification does not use.
stdinFixed == <<autorestart, ctxDone, mainPc, fwdPc, relayPc, supPc, restart, done,
                orphans, cause, accepted, starts, cancels, startedSince, pollVars,
                killVars, inPc, nread, fed>>

\* runCmd, 451-484: prepareCommand empties sigchldC (part_007 101-107);
\* c.Start() fails (return, with the deferred cancel of 456 pending) or
\* launches the process and the copier; the two goroutines are started.
StdinStart ==
    /\ cmdPc = "start"
    /\ sigchld' = FALSE
    /\ \/ /\ cmdPc' = "return"
          /\ UNCHANGED <<child, watchPc, waitPc, copyPc>>
       \/ /\ cmdPc' = "select486"
          /\ child' = "alive"
          /\ watchPc' = "select"
          /\ waitPc' = "procWait"
          /\ copyPc' = "read"
    /\ UNCHANGED <<stdinFixed, cmdctxDone, chanVars, watchVars, childctxDone, werrC>>

\* watchChild, part_007 117-121: the context of runCmd is done (return nil),
\* or a SIGCHLD notification is taken from sigchldC.
WatchChildSelect ==
    /\ watchPc = "select"
    /\ \/ cmdctxDone /\ watchPc' = "cancel" /\ UNCHANGED sigchld
       \/ sigchld /\ watchPc' = "wait4" /\ sigchld' = FALSE
    /\ UNCHANGED <<stdinFixed, cmdPc, child, cmdctxDone, chanVars, watchVars, waitPc,
                   copyPc, childctxDone, werrC>>

\* watchChild, part_007 123-131: syscall.Wait4(pid, WNOHANG).  A running
\* process gives pid 0 (next round).  A zombie is reaped by the call: if it
\* ended by exit, wstatus.Exited() holds (return nil); if it ended by a
\* signal, wstatus.Exited() is false and the loop goes on.  A process
\* c.Wait() has reaped gives ECHILD (return nil).  Any other failure of the
\* call is returned as an error.
WatchChildWait4 ==
    /\ watchPc = "wait4"
    /\ \/ child = "alive" /\ watchPc' = "select" /\ UNCHANGED child
       \/ child = "exited" /\ watchPc' = "cancel" /\ child' = "reaped"
       \/ child = "killed" /\ watchPc' = "select" /\ child' = "reaped"
       \/ child = "reaped" /\ watchPc' = "cancel" /\ UNCHANGED child
       \/ watchPc' = "cancelErr" /\ UNCHANGED child
    /\ UNCHANGED <<stdinFixed, cmdPc, cmdctxDone, chanVars, watchVars, sigchld, waitPc,
                   copyPc, childctxDone, werrC>>

\* goroutine of 470-476 after watchChild returned: cancel() of childctx, and
\* the error, if any, into werrC.
WatchChildCancel ==
    /\ watchPc \in {"cancel", "cancelErr"}
    /\ childctxDone' = TRUE
    /\ werrC' = (werrC \/ watchPc = "cancelErr")
    /\ watchPc' = "returned"
    /\ UNCHANGED <<stdinFixed, cmdPc, child, cmdctxDone, chanVars, watchVars, sigchld,
                   waitPc, copyPc>>

\* c.Wait(), 482, first part: Process.Wait returns once the process has
\* ended, with its status or, if watchChild reaped it first, with an error.
WaitProcess ==
    /\ waitPc = "procWait"
    /\ child \in {"exited", "killed", "reaped"}
    /\ child' = "reaped"
    /\ waitPc' = "awaitCopy"
    /\ UNCHANGED <<stdinFixed, cmdPc, cmdctxDone, chanVars, watchVars, sigchld, watchPc,
                   copyPc, childctxDone, werrC>>

\* c.Wait(), 482-483, second part: it returns when the copier of c.Stdin has
\* ended; close(done).
WaitGoroutines ==
    /\ waitPc = "awaitCopy"
    /\ copyPc = "eof"
    /\ waitPc' = "closed"
    /\ UNCHANGED <<stdinFixed, cmdPc, child, cmdctxDone, chanVars, watchVars, sigchld,
                   watchPc, copyPc, childctxDone, werrC>>

\* stdinReader.Read, 346-356: blocked in the select with no input, it
\* returns io.EOF when childctx is done (353-354), which ends the copier.
ReadEOF ==
    /\ copyPc = "read"
    /\ childctxDone
    /\ copyPc' = "eof"
    /\ UNCHANGED <<stdinFixed, cmdPc, child, cmdctxDone, chanVars, watchVars, sigchld,
                   watchPc, waitPc, childctxDone, werrC>>

\* runCmd, 486-494: done is closed (return cerr), watchChild's error is
\* taken from werrC, or the context is done.
StdinSelect486 ==
    /\ cmdPc = "select486"
    /\ \/ waitPc = "closed" /\ cmdPc' = "return" /\ UNCHANGED werrC
       \/ werrC /\ cmdPc' = "kill496" /\ werrC' = FALSE
       \/ cmdctxDone /\ cmdPc' = "kill496" /\ UNCHANGED werrC
    /\ UNCHANGED <<stdinFixed, child, cmdctxDone, chanVars, watchVars, sigchld, watchPc,
                   waitPc, copyPc, childctxDone>>

\* runCmd, 496-498: killChilds(c, sig) succeeds, or fails (return).
StdinKill496 ==
    /\ cmdPc = "kill496"
    /\ cmdPc' \in {"select500", "return"}
    /\ UNCHANGED <<stdinFixed, child, cmdctxDone, chanVars, watchVars, stdinVars>>

\* runCmd, 500-502: done is closed within waitForTerm, or the timer fires
\* while it is open.
StdinSelect500 ==
    /\ cmdPc = "select500"
    /\ cmdPc' = IF waitPc = "closed" THEN "return" ELSE "kill503"
    /\ UNCHANGED <<stdinFixed, child, cmdctxDone, chanVars, watchVars, stdinVars>>

\* runCmd, 503-505: killChilds(c, SIGKILL) fails (return), or succeeds: a
\* running process ends by the signal, which raises SIGCHLD.
StdinKill503 ==
    /\ cmdPc = "kill503"
    /\ \/ cmdPc' = "return" /\ UNCHANGED <<child, sigchld>>
       \/ /\ cmdPc' = "wait506"
          /\ child' = IF child = "alive" THEN "killed" ELSE child
          /\ sigchld' = (sigchld \/ child = "alive")
    /\ UNCHANGED <<stdinFixed, cmdctxDone, chanVars, watchVars, watchPc, waitPc, copyPc,
                   childctxDone, werrC>>

\* runCmd, 506: <-done.
StdinWait506 ==
    /\ cmdPc = "wait506"
    /\ waitPc = "closed"
    /\ cmdPc' = "return"
    /\ UNCHANGED <<stdinFixed, child, cmdctxDone, chanVars, watchVars, stdinVars>>

\* runCmd returns: the deferred cancel() of childctx runs (456).
StdinReturn ==
    /\ cmdPc = "return"
    /\ cmdPc' = "returned"
    /\ childctxDone' = TRUE
    /\ UNCHANGED <<stdinFixed, child, cmdctxDone, chanVars, watchVars, sigchld, watchPc,
                   waitPc, copyPc, werrC>>

\* The command ends, by exit or by a signal (its own fault, another
\* process's kill, or the signal killChilds delivered); the kernel raises
\* SIGCHLD, which the runtime puts into sigchldC if there is room.
StdinChildEnds ==
    /\ child = "alive"
    /\ child' \in {"exited", "killed"}
    /\ sigchld' = TRUE
    /\ UNCHANGED <<stdinFixed, cmdPc, cmdctxDone, chanVars, watchVars, watchPc, waitPc,
                   copyPc, childctxDone, werrC>>

\* The supervisor cancels the context of the run (425, 437, 442).
StdinTeardown ==
    /\ cmdPc \notin {"start", "returned"}
    /\ ~cmdctxDone
    /\ cmdctxDone' = TRUE
    /\ UNCHANGED <<stdinFixed, cmdPc, child, chanVars, watchVars, stdinVars>>

\* The supervisor has started the goroutine of a cycle (408) and the run is
\* about to start; sigchldC may hold a notification of an earlier command.
InitStdin ==
    /\ autorestart \in BOOLEAN
    /\ ctxDone = FALSE
    /\ mainPc = "waitSig"
    /\ fwdPc = "select"
    /\ relayPc = "range"
    /\ supPc = "toSelect"
    /\ cmdctxDone = FALSE
    /\ restart = FALSE
    /\ done = FALSE
    /\ cmdPc = "start"
    /\ child = "none"
    /\ orphans = 0
    /\ cause = "none"
    /\ accepted = 0
    /\ starts = 0
    /\ cancels = 0
    /\ startedSince = FALSE
    /\ modC = <<>>
    /\ errC = FALSE
    /\ routerPc = "loop"
    /\ WatchIdle
    /\ sigchld \in BOOLEAN
    /\ watchPc = "idle"
    /\ waitPc = "idle"
    /\ copyPc = "idle"
    /\ childctxDone = FALSE
    /\ werrC = FALSE
    /\ inPc = "idle"
    /\ nread = 0
    /\ fed = <<>>
    /\ PollIdle
    /\ KillIdle

StdinRunNext ==
    \/ StdinStart
    \/ StdinSelect486
    \/ StdinKill496
    \/ StdinSelect500
    \/ StdinKill503
    \/ StdinWait506
    \/ StdinReturn
WatchChildNext == WatchChildSelect \/ WatchChildWait4 \/ WatchChildCancel
WaitNext == WaitProcess \/ WaitGoroutines

NextStdin ==
    \/ StdinRunNext
    \/ WatchChildNext
    \/ WaitNext
    \/ ReadEOF
    \/ StdinChildEnds
    \/ StdinTeardown

\* Every goroutine of the run is scheduled and the grace timer fires;
\* nothing is assumed of the command or of the supervisor.
SpecStdin ==
    /\ InitStdin
    /\ [][NextStdin]_vars
    /\ WF_vars(StdinRunNext)
    /\ WF_vars(WatchChildNext)
    /\ WF_vars(WaitNext)
    /\ WF_vars(ReadEOF)

\* ------------------------- a run with input on standard input (SpecInput)

\* What the steps of the reader and of the copier leave alone.
inputFixed == <<supVars, chanVars, watchVars, pollVars, killVars, sigchld, watchPc,
                waitPc, childctxDone, werrC>>

\* The goroutine of runner, 385-392: os.Stdin.Read returns a chunk, which the
\* goroutine offers on the unbuffered stdinC until some Read takes it.
StdinRead ==
    /\ inPc = "read"
    /\ nread < MaxChunks
    /\ nread' = nread + 1
    /\ inPc' = "send"
    /\ UNCHANGED <<inputFixed, copyPc, fed>>

\* stdinReader.Read, 346-352, as the copier of c.Stdin calls it: the select
\* takes the chunk offered on stdinC, whether or not s.done is closed as
\* well; the copier writes it into the pipe of the process, which fails when
\* the process has ended (the copier ends), and else calls Read again.
ReadInput ==
    /\ copyPc = "read"
    /\ inPc = "send"
    /\ inPc' = "read"
    /\ fed' = Append(fed, [n |-> nread, child |-> child, done |-> childctxDone])
    /\ copyPc' = IF child = "alive" THEN "read" ELSE "eof"
    /\ UNCHANGED <<inputFixed, nread>>

\* The run of InitStdin with the reader of os.Stdin at work: it waits for
\* input, or still offers a chunk no earlier command has taken.
InitInput ==
    /\ autorestart \in BOOLEAN
    /\ ctxDone = FALSE
    /\ mainPc = "waitSig"
    /\ fwdPc = "select"
    /\ relayPc = "range"
    /\ supPc = "toSelect"
    /\ cmdctxDone = FALSE
    /\ restart = FALSE
    /\ done = FALSE
    /\ cmdPc = "start"
    /\ child = "none"
    /\ orphans = 0
    /\ cause = "none"
    /\ accepted = 0
    /\ starts = 0
    /\ cancels = 0
    /\ startedSince = FALSE
    /\ modC = <<>>
    /\ errC = FALSE
    /\ routerPc = "loop"
    /\ WatchIdle
    /\ sigchld \in BOOLEAN
    /\ watchPc = "idle"
    /\ waitPc = "idle"
    /\ copyPc = "idle"
    /\ childctxDone = FALSE
    /\ werrC = FALSE
    /\ \/ inPc = "read" /\ nread = 0
       \/ inPc = "send" /\ nread = 1
    /\ fed = <<>>
    /\ PollIdle
    /\ KillIdle

NextInput ==
    \/ StdinRunNext
    \/ WatchChildNext
    \/ WaitNext
    \/ ReadEOF
    \/ StdinChildEnds
    \/ StdinTeardown
    \/ StdinRead
    \/ ReadInput

SpecInput == InitInput /\ [][NextInput]_vars

\* ------------------------------------- polling watch backend (SpecPoll)
\* fspoll/poller.go.  A file "f" and a directory "d" with the entries "a" (a
\* file) and "s" (a subdirectory) are the paths of the model.

MaxLoops == 1       \* polling loops running at a time
MaxPollOps == 2     \* file system operations while the Poller is in use

PollNames == {"f", "d"}
PollKids == <<"a", "s">>            \* os.ReadDir returns entries sorted by name
KidSet == {"a", "s"}
PollPaths == {"f", "d", "d/a", "d/s"}
PollIsDir(path) == path \in {"d", "d/s"}
\* filepath.Join(name, basename), 246
Join(name, basename) == IF basename = "a" THEN "d/a" ELSE "d/s"

\* The variables the polling backend does not touch; pchClosed is one of
\* them: poller.go has no close() of p.events or p.errors (Close, 82-90, sets
\* p.closed and cancels p.ctx; no goroutine closes a channel when it ends).
pollFixed == <<supVars, chanVars, watchVars, stdinVars, killVars, logging, pchClosed>>

\* makeStat, 170-176: mode and (modtime, size) of an existing entry.  mt
\* counts the writes and creations of the path, as its modtime keeps growing.
NoStat == [ex |-> FALSE, mode |-> 0, mt |-> 0]
makeStat(fi) == [ex |-> TRUE, mode |-> fi.mode, mt |-> fi.mt]
NoKids == [k \in KidSet |-> NoStat]

\* de.Info() of every entry os.ReadDir(name) lists.
Listing(fsx) ==
    [k \in KidSet |-> IF fsx[Join("d", k)].ex THEN makeStat(fsx[Join("d", k)]) ELSE NoStat]

\* A loop's locals: its name and context, ready, mode/modt/size of
\* pollingFile or mode/prev/cur/des of pollingDir, the sends of the current
\* step that are still to do (out) and where the code goes on after them
\* (nxt).  tprev and tev are history: the snapshot at the start of the tick
\* and the events it has put on p.events.
FreeLoop ==
    [name |-> "", pc |-> "free", cd |-> FALSE, rdy |-> FALSE, mode |-> 0, mt |-> 0,
     prev |-> NoKids, cur |-> NoKids, des |-> <<>>, out |-> <<>>, nxt |-> "",
     tprev |-> NoKids, tev |-> {}]

LoopIds == 1..MaxLoops
\* The goroutines the specification has room for and that are not running.
FreeIds == {l \in DOMAIN loops : loops[l].pc = "free"}
\* ctx.Done() of a loop: its own cancel, or p.cancel() of Close
CtxDone(l) == loops[l].cd \/ pclosed
\* WatchList, 112-121
WatchList == {n \in PollNames : cancellers[n] # 0}

\* An Add that registers the name without looking at os.Stat's error.
PollAddNoStat(n) ==
    /\ adding = 0
    /\ IF pclosed
         THEN ret' = <<"Add", n, "ErrClosed">> /\ UNCHANGED <<cancellers, loops, adding, removedOk>>
       ELSE IF cancellers[n] # 0
         THEN ret' = <<"Add", n, "nil">> /\ UNCHANGED <<cancellers, loops, adding, removedOk>>
       ELSE /\ FreeIds # {}
            /\ LET l == CHOOSE i \in FreeIds : \A j \in FreeIds : i <= j
               IN  /\ cancellers' = [cancellers EXCEPT ![n] = l]
                   /\ loops' = [loops EXCEPT ![l] =
                          [FreeLoop EXCEPT !.name = n, !.pc = "init",
                                           !.mode = pfs[n].mode, !.mt = pfs[n].mt]]
                   /\ adding' = l
            /\ removedOk' = removedOk \ {n}
            /\ ret' = <<"Add", n, "pending">>
    /\ UNCHANGED <<pollFixed, pfs, pdenied, pclosed, pevents, perrors, pollOps, sent, opLog, spaced>>

\* Add, 41-79: p.mu is taken; ErrClosed, the error of os.Stat, or nil for a
\* name that is watched already; else the canceller is registered, the
\* goroutine is started and Add waits, holding p.mu, for ready or ctx.Done.
PollAdd(n) ==
    /\ adding = 0
    /\ IF pclosed
         THEN ret' = <<"Add", n, "ErrClosed">> /\ UNCHANGED <<cancellers, loops, adding, removedOk>>
       ELSE IF ~pfs[n].ex
         THEN ret' = <<"Add", n, "ErrNotExist">> /\ UNCHANGED <<cancellers, loops, adding, removedOk>>
       ELSE IF cancellers[n] # 0
         THEN ret' = <<"Add", n, "nil">> /\ UNCHANGED <<cancellers, loops, adding, removedOk>>
       ELSE /\ FreeIds # {}
            /\ LET l == CHOOSE i \in FreeIds : \A j \in FreeIds : i <= j
               IN  /\ cancellers' = [cancellers EXCEPT ![n] = l]
                   /\ loops' = [loops EXCEPT ![l] =
                          [FreeLoop EXCEPT !.name = n, !.pc = "init",
                                           !.mode = pfs[n].mode, !.mt = pfs[n].mt]]
                   /\ adding' = l
            /\ removedOk' = removedOk \ {n}
            /\ ret' = <<"Add", n, "pending">>
    /\ UNCHANGED <<pollFixed, pfs, pdenied, pclosed, pevents, perrors, pollOps, sent, opLog, spaced>>

\* Add, 73-78: ready is closed or ctx is done; return nil, releasing p.mu.
PollAddReturn ==
    /\ adding # 0
    /\ loops[adding].rdy \/ loops[adding].cd
    /\ adding' = 0
    /\ ret' = <<"Add", loops[adding].name, "nil">>
    /\ UNCHANGED <<pollFixed, pfs, pdenied, pclosed, cancellers, loops, pevents, perrors,
                   pollOps, sent, opLog, spaced, removedOk>>

\* Close, 82-90
PollClose ==
    /\ adding = 0
    /\ pclosed' = TRUE
    /\ ret' = <<"Close", "", "nil">>
    /\ UNCHANGED <<pollFixed, pfs, pdenied, cancellers, loops, adding, pevents, perrors,
                   pollOps, sent, opLog, spaced, removedOk>>

\* Remove, 93-109, as the goroutine of Add calls it (70): nil when closed,
\* ErrNonExistentWatch for a name not in the map, else the loop registered
\* under the name is cancelled and the name deleted.
Unregister(n) ==
    IF pclosed \/ cancellers[n] = 0
      THEN [c |-> cancellers, l |-> loops]
      ELSE [c |-> [cancellers EXCEPT ![n] = 0],
            l |-> [loops EXCEPT ![cancellers[n]].cd = TRUE]]

\* Remove, 93-109, called by the user of the Poller.
PollRemove(n) ==
    /\ adding = 0
    /\ cancellers' = Unregister(n).c
    /\ loops' = Unregister(n).l
    /\ ret' = <<"Remove", n, IF pclosed THEN "nil"
                             ELSE IF cancellers[n] = 0 THEN "ErrNonExistentWatch"
                             ELSE "nil">>
    /\ removedOk' = IF ~pclosed /\ cancellers[n] # 0 THEN removedOk \cup {n} ELSE removedOk
    /\ UNCHANGED <<pollFixed, pfs, pdenied, pclosed, adding, pevents, perrors, pollOps,
                   sent, opLog, spaced>>

\* The reader of Events() and of Errors() takes what the channel holds.
PollRecv ==
    /\ \/ pevents # <<>> /\ pevents' = Tail(pevents) /\ UNCHANGED perrors
       \/ perrors # <<>> /\ perrors' = Tail(perrors) /\ UNCHANGED pevents
    /\ ret' = <<>>
    /\ UNCHANGED <<pollFixed, pfs, pdenied, pclosed, cancellers, loops, adding, pollOps,
                   sent, opLog, spaced, removedOk>>

\* What the steps of a loop leave alone.
loopFixed == <<pollFixed, pfs, pdenied, pclosed, adding, pollOps, opLog, spaced, removedOk>>

\* An entry comparison that looks at modtime and size only.
EntryEventsNoChmod(full, ps, cs) ==
    IF ~ps.ex THEN << <<full, "Create">> >>
    ELSE IF ~PollIsDir(full) /\ cs.mt # ps.mt THEN << <<full, "Write">> >> ELSE <<>>

\* The sends an entry of a directory calls for, 262-282: Create for a name
\* prev does not have; else Chmod for another mode and, unless the entry is
\* a directory, Write for another modtime or size.
EntryEvents(full, ps, cs) ==
    IF ~ps.ex THEN << <<full, "Create">> >>
    ELSE (IF cs.mode # ps.mode THEN << <<full, "Chmod">> >> ELSE <<>>)
         \o (IF ~PollIsDir(full) /\ cs.mt # ps.mt THEN << <<full, "Write">> >> ELSE <<>>)

\* The sends after the entries, 285-289: Remove for what is left in prev; a
\* map is ranged over in any order.
RemoveOrders(name, prev) ==
    LET left == {k \in KidSet : prev[k].ex}
    IN  IF left = {} THEN {<<>>}
        ELSE IF Cardinality(left) = 1
          THEN {<< <<Join(name, CHOOSE k \in left : TRUE), "Remove">> >>}
        ELSE {<< <<Join(name, k1), "Remove">>, <<Join(name, k2), "Remove">> >> :
                  k1 \in left, k2 \in left} \ {<< <<Join(name, k), "Remove">>, <<Join(name, k), "Remove">> >> : k \in left}

\* A loop goes on after the sends of a step: to them if there are any.
After(r, out, nxt) ==
    IF out = <<>> THEN [r EXCEPT !.pc = nxt, !.out = <<>>, !.nxt = ""]
    ELSE [r EXCEPT !.pc = "send", !.out = out, !.nxt = nxt]

\* pollingFile 296-300, pollingDir 179-204: the first part of the goroutine
\* of Add (62-68).  A file: close(ready).  A directory: os.ReadDir; a
\* directory that is gone ends the loop; another error goes to sendError,
\* whose isClosed waits for p.mu, which Add holds until ready is closed
\* ("initErr": neither goes on); else prev is filled and ready closed.
PollInit(l) ==
    /\ loops[l].pc = "init"
    /\ loops' = [loops EXCEPT ![l] =
          IF ~PollIsDir(@.name) THEN [@ EXCEPT !.pc = "select", !.rdy = TRUE]
          ELSE IF ~pfs[@.name].ex THEN [@ EXCEPT !.pc = "exit"]
          ELSE IF @.name \in pdenied THEN [@ EXCEPT !.pc = "initErr"]
          ELSE [@ EXCEPT !.pc = "select", !.rdy = TRUE, !.prev = Listing(pfs)]]
    /\ ret' = <<>>
    /\ UNCHANGED <<loopFixed, cancellers, pevents, perrors, sent>>

\* The select of 302-306 and 207-211: ctx is done (return), or the ticker
\* fires.
PollSelect(l) ==
    /\ loops[l].pc = "select"
    /\ \/ /\ CtxDone(l)
          /\ loops' = [loops EXCEPT ![l].pc = "exit"]
       \/ loops' = [loops EXCEPT ![l] =
              [@ EXCEPT !.pc = "stat", !.tprev = loops[l].prev, !.tev = {}]]
    /\ ret' = <<>>
    /\ UNCHANGED <<loopFixed, cancellers, pevents, perrors, sent>>

\* A pollingFile that reports the removal and goes on polling.
PollFileStatGoesOn(l) ==
    /\ loops[l].pc = "stat"
    /\ ~PollIsDir(loops[l].name)
    /\ LET r == loops[l]
           fi == pfs[r.name]
       IN  loops' = [loops EXCEPT ![l] =
              IF "." \in pdenied THEN After(r, << <<"", "Error">> >>, "panic")
              ELSE IF ~fi.ex THEN After(r, << <<r.name, "Remove">> >>, "select")
              ELSE After([r EXCEPT !.mode = fi.mode, !.mt = fi.mt],
                         (IF fi.mode # r.mode THEN << <<r.name, "Chmod">> >> ELSE <<>>)
                         \o (IF fi.mt # r.mt THEN << <<r.name, "Write">> >> ELSE <<>>),
                         "select")]
    /\ ret' = <<>>
    /\ UNCHANGED <<loopFixed, cancellers, pevents, perrors, sent>>

\* A pollingFile that reports a Write without remembering the new
\* modification time and size.
PollFileStatKeepsStamp(l) ==
    /\ loops[l].pc = "stat"
    /\ ~PollIsDir(loops[l].name)
    /\ LET r == loops[l]
           fi == pfs[r.name]
       IN  loops' = [loops EXCEPT ![l] =
              IF "." \in pdenied THEN After(r, << <<"", "Error">> >>, "panic")
              ELSE IF ~fi.ex THEN After(r, << <<r.name, "Remove">> >>, "exit")
              ELSE After([r EXCEPT !.mode = fi.mode],
                         (IF fi.mode # r.mode THEN << <<r.name, "Chmod">> >> ELSE <<>>)
                         \o (IF fi.mt # r.mt THEN << <<r.name, "Write">> >> ELSE <<>>),
                         "select")]
    /\ ret' = <<>>
    /\ UNCHANGED <<loopFixed, cancellers, pevents, perrors, sent>>

\* pollingFile, 308-333: os.Stat; a file that is gone is reported with
\* Remove and the loop returns; another error goes to sendError, and when
\* that send succeeds the code goes on to fi.Mode() (320) with the nil
\* FileInfo os.Stat returned with the error: a nil dereference, the runtime
\* panics and the process ends ("panic").  Else Chmod for another mode,
\* then Write for another modtime or size, each remembered before it is sent.
PollFileStat(l) ==
    /\ loops[l].pc = "stat"
    /\ ~PollIsDir(loops[l].name)
    /\ LET r == loops[l]
           fi == pfs[r.name]
       IN  loops' = [loops EXCEPT ![l] =
              IF "." \in pdenied THEN After(r, << <<"", "Error">> >>, "panic")
              ELSE IF ~fi.ex THEN After(r, << <<r.name, "Remove">> >>, "exit")
              ELSE After([r EXCEPT !.mode = fi.mode, !.mt = fi.mt],
                         (IF fi.mode # r.mode THEN << <<r.name, "Chmod">> >> ELSE <<>>)
                         \o (IF fi.mt # r.mt THEN << <<r.name, "Write">> >> ELSE <<>>),
                         "select")]
    /\ ret' = <<>>
    /\ UNCHANGED <<loopFixed, cancellers, pevents, perrors, sent>>

\* pollingDir, 213-229: os.Stat of the directory; gone: return; another
\* error: sendError, then fi.Mode() (224) on the nil FileInfo ("panic", as
\* in pollingFile); another mode: Chmod on the directory itself.
PollDirStat(l) ==
    /\ loops[l].pc = "stat"
    /\ PollIsDir(loops[l].name)
    /\ LET r == loops[l]
           fi == pfs[r.name]
       IN  loops' = [loops EXCEPT ![l] =
              IF "." \in pdenied THEN After(r, << <<"", "Error">> >>, "panic")
              ELSE IF ~fi.ex THEN [r EXCEPT !.pc = "exit"]
              ELSE After([r EXCEPT !.mode = fi.mode],
                         IF fi.mode # r.mode THEN << <<r.name, "Chmod">> >> ELSE <<>>,
                         "readdir")]
    /\ ret' = <<>>
    /\ UNCHANGED <<loopFixed, cancellers, pevents, perrors, sent>>

\* pollingDir, 231-241: os.ReadDir; gone: return; another error: sendError
\* and continue with the next tick; else the entries to go through.
PollReadDir(l) ==
    /\ loops[l].pc = "readdir"
    /\ LET r == loops[l]
       IN  loops' = [loops EXCEPT ![l] =
              IF ~pfs[r.name].ex THEN [r EXCEPT !.pc = "exit"]
              ELSE IF r.name \in pdenied THEN After(r, << <<"", "Error">> >>, "select")
              ELSE [r EXCEPT !.pc = "entry",
                             !.des = SelectSeq(PollKids, LAMBDA k : pfs[Join(r.name, k)].ex)]]
    /\ ret' = <<>>
    /\ UNCHANGED <<loopFixed, cancellers, pevents, perrors, sent>>

\* A pollingDir that leaves the entry in prev (no delete(prev, basename)).
PollEntryKeepsPrev(l) ==
    /\ loops[l].pc = "entry"
    /\ loops[l].des # <<>>
    /\ LET r == loops[l]
           k == Head(r.des)
           fi == pfs[Join(r.name, k)]
           rest == [r EXCEPT !.des = Tail(r.des)]
       IN  loops' = [loops EXCEPT ![l] =
              IF Join(r.name, k) \in pdenied THEN After(rest, << <<"", "Error">> >>, "entry")
              ELSE IF ~fi.ex THEN After(rest, << <<Join(r.name, k), "Remove">> >>, "entry")
              ELSE After([rest EXCEPT !.cur[k] = makeStat(fi)],
                         EntryEvents(Join(r.name, k), r.prev[k], makeStat(fi)),
                         "entry")]
    /\ ret' = <<>>
    /\ UNCHANGED <<loopFixed, cancellers, pevents, perrors, sent>>

\* pollingDir, 243-283, one entry: de.Info(); an entry that is gone by now
\* is reported with Remove, another error goes to sendError, and either way
\* the loop continues with the next entry (the entry stays in prev); else it
\* goes into cur, is taken out of prev if it is there, and its events are
\* sent.
PollEntry(l) ==
    /\ loops[l].pc = "entry"
    /\ loops[l].des # <<>>
    /\ LET r == loops[l]
           k == Head(r.des)
           fi == pfs[Join(r.name, k)]
           rest == [r EXCEPT !.des = Tail(r.des)]
       IN  loops' = [loops EXCEPT ![l] =
              IF Join(r.name, k) \in pdenied THEN After(rest, << <<"", "Error">> >>, "entry")
              ELSE IF ~fi.ex THEN After(rest, << <<Join(r.name, k), "Remove">> >>, "entry")
              ELSE After([rest EXCEPT !.cur[k] = makeStat(fi), !.prev[k] = NoStat],
                         EntryEvents(Join(r.name, k), r.prev[k], makeStat(fi)),
                         "entry")]
    /\ ret' = <<>>
    /\ UNCHANGED <<loopFixed, cancellers, pevents, perrors, sent>>

\* pollingDir, 285-289: after the last entry, Remove for what prev still has.
PollRemoves(l) ==
    /\ loops[l].pc = "entry"
    /\ loops[l].des = <<>>
    /\ \E out \in RemoveOrders(loops[l].name, loops[l].prev) :
          loops' = [loops EXCEPT ![l] = After(@, out, "swap")]
    /\ ret' = <<>>
    /\ UNCHANGED <<loopFixed, cancellers, pevents, perrors, sent>>

\* pollingDir, 290-291: clear(prev); prev, cur = cur, prev.
PollSwap(l) ==
    /\ loops[l].pc = "swap"
    /\ loops' = [loops EXCEPT ![l] = [@ EXCEPT !.pc = "select", !.prev = loops[l].cur, !.cur = NoKids,
                                               !.tprev = NoKids, !.tev = {}]]
    /\ ret' = <<>>
    /\ UNCHANGED <<loopFixed, cancellers, pevents, perrors, sent>>

\* sendEvent / sendError, 140-143 and 153-156: isClosed takes p.mu for
\* reading; a closed Poller makes the send fail, and every caller returns.
PollIsClosed(l) ==
    /\ loops[l].pc = "send"
    /\ adding = 0
    /\ loops' = [loops EXCEPT ![l].pc = IF pclosed THEN "exit" ELSE "sendSel"]
    /\ ret' = <<>>
    /\ UNCHANGED <<loopFixed, cancellers, pevents, perrors, sent>>

\* A send that waits for room in the channel whatever happens to ctx.
PollSendBlocking(l) ==
    /\ loops[l].pc = "sendSel"
    /\ LET r == loops[l]
           v == Head(r.out)
       IN  \/ /\ v[2] # "Error"
              /\ pevents = <<>>
              /\ pevents' = <<v>>
              /\ sent' = IF logging THEN sent \cup {v} ELSE sent
              /\ loops' = [loops EXCEPT ![l] =
                     After([r EXCEPT !.tev = @ \cup {v}], Tail(r.out), r.nxt)]
              /\ UNCHANGED perrors
           \/ /\ v[2] = "Error"
              /\ perrors = <<>>
              /\ perrors' = <<v>>
              /\ loops' = [loops EXCEPT ![l] = After(r, Tail(r.out), r.nxt)]
              /\ UNCHANGED <<pevents, sent>>
    /\ ret' = <<>>
    /\ UNCHANGED <<loopFixed, cancellers>>

\* sendEvent / sendError, 144-149 and 157-162: the select takes ctx.Done
\* (the caller returns) or puts the value into the channel, whichever is
\* ready; with both ready, either.
PollSend(l) ==
    /\ loops[l].pc = "sendSel"
    /\ LET r == loops[l]
           v == Head(r.out)
       IN  \/ /\ CtxDone(l)
              /\ loops' = [loops EXCEPT ![l] = [r EXCEPT !.pc = "exit", !.out = <<>>, !.nxt = ""]]
              /\ UNCHANGED <<pevents, perrors, sent>>
           \/ /\ v[2] # "Error"
              /\ pevents = <<>>
              /\ pevents' = <<v>>
              /\ sent' = IF logging THEN sent \cup {v} ELSE sent
              /\ loops' = [loops EXCEPT ![l] =
                     After([r EXCEPT !.tev = @ \cup {v}], Tail(r.out), r.nxt)]
              /\ UNCHANGED perrors
           \/ /\ v[2] = "Error"
              /\ perrors = <<>>
              /\ perrors' = <<v>>
              /\ loops' = [loops EXCEPT ![l] = After(r, Tail(r.out), r.nxt)]
              /\ UNCHANGED <<pevents, sent>>
    /\ ret' = <<>>
    /\ UNCHANGED <<loopFixed, cancellers>>

\* The goroutine of Add after the polling function returned, 69: cancel().
PollExit(l) ==
    /\ loops[l].pc = "exit"
    /\ loops' = [loops EXCEPT ![l] = [@ EXCEPT !.pc = "unreg", !.cd = TRUE]]
    /\ ret' = <<>>
    /\ UNCHANGED <<loopFixed, cancellers, pevents, perrors, sent>>

\* The goroutine of Add, 70: p.Remove(name), whatever is registered under
\* the name by now; the goroutine ends.
PollUnreg(l) ==
    /\ loops[l].pc = "unreg"
    /\ adding = 0
    /\ cancellers' = Unregister(loops[l].name).c
    /\ loops' = [Unregister(loops[l].name).l EXCEPT ![l] = FreeLoop]
    /\ ret' = <<>>
    /\ UNCHANGED <<loopFixed, pevents, perrors, sent>>

\* The paths a native watcher with the same watch list reports on: a
\* watched name, and the entries of a watched directory.
Covered(path) ==
    \/ path \in WatchList
    \/ path \in {"d/a", "d/s"} /\ "d" \in WatchList

\* What the loop of a covered path has seen of it last: mode, modt and size
\* of pollingFile; for an entry, what the tick under way has put into cur,
\* else what prev holds.
Known(path) ==
    LET r == loops[cancellers[IF path = "f" THEN "f" ELSE "d"]]
        k == IF path = "d/a" THEN "a" ELSE "s"
    IN  IF path = "f" THEN [ex |-> TRUE, mode |-> r.mode, mt |-> r.mt]
        ELSE IF path = "d" THEN [ex |-> TRUE, mode |-> r.mode, mt |-> 0]
        ELSE IF r.cur[k].ex THEN r.cur[k] ELSE r.prev[k]

\* The path has changed since its loop looked at it, in what the loop
\* compares: existence, mode and, but for a directory, modtime and size.
Unseen(path) ==
    /\ Covered(path)
    /\ LET kn == Known(path)
           fi == pfs[path]
       IN  \/ kn.ex # fi.ex
           \/ kn.ex /\ kn.mode # fi.mode
           \/ kn.ex /\ ~PollIsDir(path) /\ kn.mt # fi.mt

\* A file system operation of some other process: create, write (for the
\* subdirectory: a change of what is inside it), chmod, remove (a directory
\* must be empty).  A native watcher of the same paths reports (path, op)
\* for each, but nothing for a change inside the subdirectory nor for the
\* creation of a path it watches itself; opLog keeps what it reports
\* (TestFsnotify, part_004 21-30, runs the same cases on it).
PollFsOp ==
    /\ pollOps < MaxPollOps
    /\ \E path \in PollPaths, op \in {"Create", "Write", "Chmod", "Remove"} :
          /\ CASE op = "Create" -> /\ ~pfs[path].ex
                                   /\ path \in {"d/a", "d/s"} => pfs["d"].ex
                                   /\ pfs' = [pfs EXCEPT ![path] =
                                          [ex |-> TRUE, mode |-> 0, mt |-> @.mt + 1]]
               [] op = "Write"  -> /\ pfs[path].ex
                                   /\ path # "d"
                                   /\ pfs' = [pfs EXCEPT ![path].mt = @ + 1]
               [] op = "Chmod"  -> /\ pfs[path].ex
                                   /\ pfs' = [pfs EXCEPT ![path].mode = 1 - @]
               [] op = "Remove" -> /\ pfs[path].ex
                                   /\ path = "d" => ~pfs["d/a"].ex /\ ~pfs["d/s"].ex
                                   /\ pfs' = [pfs EXCEPT ![path].ex = FALSE]
          /\ opLog' = IF /\ logging
                         /\ Covered(path)
                         /\ ~(op = "Write" /\ PollIsDir(path))
                         /\ ~(op = "Create" /\ path \in PollNames)
                        THEN opLog \cup {<<path, op>>} ELSE opLog
          /\ spaced' = /\ spaced
                        /\ ~(logging /\ Unseen(path))
                        /\ ~(logging /\ op = "Remove" /\ path = "d"
                                     /\ (Unseen("d/a") \/ Unseen("d/s")))
    /\ pollOps' = pollOps + 1
    /\ ret' = <<>>
    /\ UNCHANGED <<pollFixed, pdenied, pclosed, cancellers, loops, adding, pevents,
                   perrors, sent, removedOk>>

\* fspoll.New, 29-39, with nothing watched; the file, the directory and its
\* entries exist, and the directory is readable or not.
InitPoll ==
    /\ autorestart = FALSE
    /\ SupInit
    /\ modC = <<>>
    /\ errC = FALSE
    /\ routerPc = "loop"
    /\ WatchIdle
    /\ StdinIdle
    /\ KillIdle
    /\ pfs = [path \in PollPaths |-> [ex |-> TRUE, mode |-> 0, mt |-> 0]]
    /\ pdenied \in {{}, {"d"}}
    /\ pclosed = FALSE
    /\ cancellers = [n \in PollNames |-> 0]
    /\ loops = [l \in LoopIds |-> FreeLoop]
    /\ adding = 0
    /\ pevents = <<>>
    /\ perrors = <<>>
    /\ pchClosed = {}
    /\ ret = <<>>
    /\ pollOps = 0
    /\ logging = FALSE
    /\ sent = {}
    /\ opLog = {}
    /\ spaced = TRUE
    /\ removedOk = {}

\* The goroutine of one Add.
PollLoop(l) ==
    \/ PollInit(l)
    \/ PollSelect(l)
    \/ PollFileStat(l)
    \/ PollDirStat(l)
    \/ PollReadDir(l)
    \/ PollEntry(l)
    \/ PollRemoves(l)
    \/ PollSwap(l)
    \/ PollIsClosed(l)
    \/ PollSend(l)
    \/ PollExit(l)
    \/ PollUnreg(l)

NextPoll ==
    \/ \E n \in PollNames : PollAdd(n)
    \/ PollAddReturn
    \/ \E n \in PollNames : PollRemove(n)
    \/ PollClose
    \/ PollRecv
    \/ \E l \in LoopIds : PollLoop(l)
    \/ PollFsOp

\* Every goroutine is scheduled, the tickers fire, and the channels are read.
SpecPoll ==
    /\ InitPoll
    /\ [][NextPoll]_vars
    /\ \A l \in LoopIds : WF_vars(PollLoop(l))
    /\ WF_vars(PollAddReturn)
    /\ WF_vars(PollRecv)

\* The ctx.Done() case of the select of 207-211 and 302-306.
PollCtxDone(l) ==
    /\ loops[l].pc = "select"
    /\ CtxDone(l)
    /\ PollSelect(l)
    /\ loops'[l].pc = "exit"

\* SpecClose: the Poller with a reader that may stop reading Events() and
\* Errors() at any time.  The goroutines are scheduled, and a select with
\* ctx.Done() ready does not take the ticker instead for ever (Go picks among
\* the ready cases at random, and the ticker is ready once per interval).
SpecClose ==
    /\ InitPoll
    /\ [][NextPoll]_vars
    /\ \A l \in LoopIds : WF_vars(PollLoop(l)) /\ SF_vars(PollCtxDone(l))
    /\ WF_vars(PollAddReturn)

\* SpecReadd: the Poller with room for one goroutine more, so that a name
\* can be added again while the goroutine of its earlier watch is still on
\* its way out.  The file is the name added and removed, and the Poller is
\* not closed.
ReaddIds == 1..(MaxLoops + 1)

InitReadd ==
    /\ autorestart = FALSE
    /\ SupInit
    /\ modC = <<>>
    /\ errC = FALSE
    /\ routerPc = "loop"
    /\ WatchIdle
    /\ StdinIdle
    /\ KillIdle
    /\ pfs = [path \in PollPaths |-> [ex |-> TRUE, mode |-> 0, mt |-> 0]]
    /\ pdenied = {}
    /\ pclosed = FALSE
    /\ cancellers = [n \in PollNames |-> 0]
    /\ loops = [l \in ReaddIds |-> FreeLoop]
    /\ adding = 0
    /\ pevents = <<>>
    /\ perrors = <<>>
    /\ pchClosed = {}
    /\ ret = <<>>
    /\ pollOps = 0
    /\ logging = FALSE
    /\ sent = {}
    /\ opLog = {}
    /\ spaced = TRUE
    /\ removedOk = {}

NextReadd ==
    \/ PollAdd("f")
    \/ PollAddReturn
    \/ PollRemove("f")
    \/ PollRecv
    \/ \E l \in ReaddIds :
          \/ PollInit(l)
          \/ PollSelect(l)
          \/ PollFileStat(l)
          \/ PollIsClosed(l)
          \/ PollSend(l)
          \/ PollExit(l)
          \/ PollUnreg(l)
    \/ PollFsOp

SpecReadd == InitReadd /\ [][NextReadd]_vars

\* ------------------------------------ one directory, tick by tick (SpecTick)

\* What makeStat can give for an entry, or nothing for a name that is not
\* there.
StatSet == {NoStat} \cup {[ex |-> TRUE, mode |-> m, mt |-> t] : m \in 0..1, t \in 0..1}

\* pollingDir of "d" waits for a tick: ready is closed, prev is any snapshot
\* an earlier tick can have left, and the directory holds any entries.
InitTick ==
    /\ autorestart = FALSE
    /\ SupInit
    /\ modC = <<>>
    /\ errC = FALSE
    /\ routerPc = "loop"
    /\ WatchIdle
    /\ StdinIdle
    /\ KillIdle
    /\ \E now \in [KidSet -> StatSet], m \in 0..1 :
          pfs = [path \in PollPaths |->
                    IF path = "f" THEN NoStat
                    ELSE IF path = "d" THEN [ex |-> TRUE, mode |-> m, mt |-> 0]
                    ELSE IF path = "d/a" THEN now["a"] ELSE now["s"]]
    /\ pdenied = {}
    /\ pclosed = FALSE
    /\ cancellers = [n \in PollNames |-> IF n = "d" THEN 1 ELSE 0]
    /\ \E before \in [KidSet -> StatSet], m \in 0..1 :
          loops = [l \in LoopIds |->
                      IF l = 1 THEN [FreeLoop EXCEPT !.name = "d", !.pc = "select",
                                                     !.rdy = TRUE, !.mode = m,
                                                     !.prev = before]
                      ELSE FreeLoop]
    /\ adding = 0
    /\ pevents = <<>>
    /\ perrors = <<>>
    /\ pchClosed = {}
    /\ ret = <<>>
    /\ pollOps = 0
    /\ logging = FALSE
    /\ sent = {}
    /\ opLog = {}
    /\ spaced = TRUE
    /\ removedOk = {}

\* The loop and the reader of Events(); nothing else happens.
NextTick ==
    \/ \E l \in LoopIds :
          \/ PollSelect(l)
          \/ PollDirStat(l)
          \/ PollReadDir(l)
          \/ PollEntry(l)
          \/ PollRemoves(l)
          \/ PollSwap(l)
          \/ PollIsClosed(l)
          \/ PollSend(l)
    \/ PollRecv

SpecTick == InitTick /\ [][NextTick]_vars

\* ------------------------- a watched path and its operations (SpecPair)

\* Add(n) has returned for the file or for the directory; every path exists;
\* the operations and the events are kept from now on.
InitPair ==
    /\ autorestart = FALSE
    /\ SupInit
    /\ modC = <<>>
    /\ errC = FALSE
    /\ routerPc = "loop"
    /\ WatchIdle
    /\ StdinIdle
    /\ KillIdle
    /\ pfs = [path \in PollPaths |-> [ex |-> TRUE, mode |-> 0, mt |-> 0]]
    /\ pdenied = {}
    /\ pclosed = FALSE
    /\ \E n \in PollNames :
          /\ cancellers = [m \in PollNames |-> IF m = n THEN 1 ELSE 0]
          /\ loops = [l \in LoopIds |->
                         IF l = 1 THEN [FreeLoop EXCEPT !.name = n, !.pc = "select",
                                                        !.rdy = TRUE,
                                                        !.prev = IF n = "d" THEN Listing(pfs)
                                                                 ELSE NoKids]
                         ELSE FreeLoop]
    /\ adding = 0
    /\ pevents = <<>>
    /\ perrors = <<>>
    /\ pchClosed = {}
    /\ ret = <<>>
    /\ pollOps = 0
    /\ logging = TRUE
    /\ sent = {}
    /\ opLog = {}
    /\ spaced = TRUE
    /\ removedOk = {}

\* The loop, the reader of Events() and the file system; no call of the
\* Poller is made.
NextPair ==
    \/ \E l \in LoopIds :
          \/ PollSelect(l)
          \/ PollFileStat(l)
          \/ PollDirStat(l)
          \/ PollReadDir(l)
          \/ PollEntry(l)
          \/ PollRemoves(l)
          \/ PollSwap(l)
          \/ PollIsClosed(l)
          \/ PollSend(l)
          \/ PollExit(l)
          \/ PollUnreg(l)
    \/ PollRecv
    \/ PollFsOp

SpecPair == InitPair /\ [][NextPair]_vars

\* --------------------- errors while scanning, up to the router (SpecScan)

\* The paths a permission can be taken from: the directory (os.ReadDir
\* fails), its entries (de.Info() fails), and "." (os.Stat of the watched
\* name fails).
DenyPaths == {".", "d", "d/a", "d/s"}

\* The environment takes a permission away or gives it back.
PollDeny ==
    /\ pollOps < MaxPollOps
    /\ \E path \in DenyPaths :
          pdenied' = IF path \in pdenied THEN pdenied \ {path} ELSE pdenied \cup {path}
    /\ pollOps' = pollOps + 1
    /\ ret' = <<>>
    /\ UNCHANGED <<pollFixed, pfs, pclosed, cancellers, loops, adding, pevents, perrors,
                   sent, opLog, spaced, removedOk>>

\* The goroutine of watcher on the polling backend, arelo.go 211-256: it
\* takes an event from w.Events() (what it does with the event is in
\* SpecWatch and SpecRoute), or an error from w.Errors(), sends that on errC
\* (254) and returns once the send was taken (255).
RouterRecvPoll ==
    /\ routerPc = "loop"
    /\ \/ /\ pevents # <<>>
          /\ pevents' = Tail(pevents)
          /\ UNCHANGED <<perrors, errC, routerPc>>
       \/ /\ perrors # <<>>
          /\ perrors' = Tail(perrors)
          /\ errC' = TRUE
          /\ routerPc' = "sendErr"
          /\ UNCHANGED pevents
    /\ ret' = <<>>
    /\ UNCHANGED <<supVars, modC, watchVars, stdinVars, killVars, pfs, pdenied, pclosed,
                   cancellers, loops, adding, pchClosed, pollOps, logging, sent, opLog,
                   spaced, removedOk>>

\* The runtime has ended the process: a goroutine panicked.
Crashed == \E l \in LoopIds : loops[l].pc = "panic"

\* arelo runs with --polling: Add(n) has returned for the file or for the
\* directory, whose loop waits for its first tick; every permission is
\* there; the directory holds any of its entries.
InitScan ==
    /\ autorestart = FALSE
    /\ SupInit
    /\ modC = <<>>
    /\ errC = FALSE
    /\ routerPc = "loop"
    /\ WatchIdle
    /\ StdinIdle
    /\ KillIdle
    /\ \E kids \in SUBSET KidSet :
          pfs = [path \in PollPaths |->
                    IF path \in PollNames \/ \E k \in kids : path = Join("d", k)
                      THEN [ex |-> TRUE, mode |-> 0, mt |-> 0] ELSE NoStat]
    /\ pdenied = {}
    /\ pclosed = FALSE
    /\ \E n \in PollNames :
          /\ cancellers = [m \in PollNames |-> IF m = n THEN 1 ELSE 0]
          /\ loops = [l \in LoopIds |->
                         IF l = 1 THEN [FreeLoop EXCEPT !.name = n, !.pc = "select",
                                                        !.rdy = TRUE,
                                                        !.prev = IF n = "d" THEN Listing(pfs)
                                                                 ELSE NoKids]
                         ELSE FreeLoop]
    /\ adding = 0
    /\ pevents = <<>>
    /\ perrors = <<>>
    /\ pchClosed = {}
    /\ ret = <<>>
    /\ pollOps = 0
    /\ logging = FALSE
    /\ sent = {}
    /\ opLog = {}
    /\ spaced = TRUE
    /\ removedOk = {}

\* The goroutine of Add from its first tick on.
ScanLoop(l) ==
    \/ PollSelect(l)
    \/ PollFileStat(l)
    \/ PollDirStat(l)
    \/ PollReadDir(l)
    \/ PollEntry(l)
    \/ PollRemoves(l)
    \/ PollSwap(l)
    \/ PollIsClosed(l)
    \/ PollSend(l)
    \/ PollExit(l)
    \/ PollUnreg(l)

\* The polling loop, the router and the forwarder of main run until a
\* goroutine panics (a loop that panicked has no step left); the files and
\* the permissions change under them.
NextScan ==
    \/ \E l \in LoopIds : ScanLoop(l)
    \/ ~Crashed /\ RouterRecvPoll
    \/ ~Crashed /\ FwdRecvErr
    \/ PollFsOp
    \/ PollDeny

SpecScan == InitScan /\ [][NextScan]_vars

\* ------------------------------------ one call of killChilds (SpecKill)
\* killChilds(c, sig) on a unix system, for every signal the -s option can
\* name (parseSignalOption, part_007 64-88), for SIGKILL of the second stage
\* and for SIGCONT.  The commands of the group are taken as one: they run,
\* they are stopped (job control), or they have ended and are not reaped yet.

OptionSignals == {"SIGHUP", "SIGINT", "SIGQUIT", "SIGKILL", "SIGUSR1", "SIGUSR2",
                  "SIGTERM", "SIGWINCH"}
Signals == OptionSignals \cup {"SIGCONT"}

\* The variables SpecKill does not use.
killFixed == <<supVars, chanVars, watchVars, stdinVars, pollVars, ksig>>

\* What a delivered signal does to the group: SIGKILL ends it, stopped or
\* not; SIGCONT resumes a stopped group, which then acts on what is pending;
\* any other signal stays pending while the group is stopped, and ends a
\* running group or is handled by it.  The result is the set of possible
\* <<grp, kpending>>.
Deliver(s) ==
    IF grp = "ended" THEN {<<grp, kpending>>}
    ELSE IF s = "SIGKILL" THEN {<<"ended", {}>>}
    ELSE IF s = "SIGCONT"
      THEN IF grp = "stopped" /\ kpending # {} THEN {<<"running", {}>>, <<"ended", {}>>}
           ELSE {<<"running", {}>>}
    ELSE IF grp = "stopped" THEN {<<grp, kpending \cup {s}>>}
    ELSE {<<"running", {}>>, <<"ended", {}>>}

\* A killChilds that sends SIGCONT after every signal.
KillSendAlwaysCont ==
    /\ killPc = "call"
    /\ \/ /\ kcalls' = << <<ksig, TRUE>> >>
          /\ \E r \in Deliver(ksig) : grp' = r[1] /\ kpending' = r[2]
          /\ killPc' = "cont"
       \/ /\ kcalls' = << <<ksig, FALSE>> >>
          /\ killPc' = "ret"
          /\ UNCHANGED <<grp, kpending>>
    /\ UNCHANGED killFixed

\* killChilds, 136-137: syscall.Kill(-pid, sig); the SIGCONT call follows if
\* it succeeded and sig is neither SIGKILL nor SIGCONT; else err is returned.
KillSend ==
    /\ killPc = "call"
    /\ \/ /\ kcalls' = << <<ksig, TRUE>> >>
          /\ \E r \in Deliver(ksig) : grp' = r[1] /\ kpending' = r[2]
          /\ killPc' = IF ksig \notin {"SIGKILL", "SIGCONT"} THEN "cont" ELSE "ret"
       \/ /\ kcalls' = << <<ksig, FALSE>> >>
          /\ killPc' = "ret"
          /\ UNCHANGED <<grp, kpending>>
    /\ UNCHANGED killFixed

\* killChilds, 138-141: syscall.Kill(-pid, SIGCONT); its error is returned.
KillCont ==
    /\ killPc = "cont"
    /\ \/ /\ kcalls' = Append(kcalls, <<"SIGCONT", TRUE>>)
          /\ \E r \in Deliver("SIGCONT") : grp' = r[1] /\ kpending' = r[2]
       \/ /\ kcalls' = Append(kcalls, <<"SIGCONT", FALSE>>)
          /\ UNCHANGED <<grp, kpending>>
    /\ killPc' = "ret"
    /\ UNCHANGED killFixed

\* The group is stopped from outside (SIGSTOP, SIGTSTP), or ends by itself.
GrpStops ==
    /\ grp = "running"
    /\ grp' \in {"stopped", "ended"}
    /\ kpending' = {}
    /\ UNCHANGED <<killFixed, killPc, kcalls>>

\* killChilds is called with a signal while the group runs or is stopped.
InitKill ==
    /\ autorestart = FALSE
    /\ SupInit
    /\ modC = <<>>
    /\ errC = FALSE
    /\ routerPc = "loop"
    /\ WatchIdle
    /\ StdinIdle
    /\ PollIdle
    /\ ksig \in Signals
    /\ killPc = "call"
    /\ kcalls = <<>>
    /\ grp \in {"running", "stopped"}
    /\ kpending = {}

NextKill == KillSend \/ KillCont \/ GrpStops

SpecKill == InitKill /\ [][NextKill]_vars

\* ------------------------------------------------ claims on the supervisor

\* Processes started by the supervisor that have not ended yet.
Alive == orphans + (IF child = "alive" THEN 1 ELSE 0)

\* C1: at most one child process is alive at any instant, whatever the
\* triggers, the child's own exits, the outcomes of signal delivery and the
\* outer cancellation.
C1_AtMostOneChildAlive == Alive <= 1

\* C1, the case: a signal delivery failed while a command was running, and
\* the supervisor went on to another cycle.
C1_Witness == orphans = 1 /\ supPc = "toSelect" /\ cmdPc = "start"

\* The relay's attempt (365-368) in this step.
RelayAttempt == relayPc = "try" /\ relayPc' = "range"

\* C3 as stated: once a trigger has been accepted, a notification that
\* arrives before the replacement child has been started is not accepted.
C3_NoAcceptBeforeStart ==
    [][(RelayAttempt /\ cause = "trigger" /\ starts = 0) => accepted' = accepted]_vars

\* The supervisor's own variables.
supState == <<supPc, cmdctxDone, cause, accepted, cancels>>

\* C3 as amended: a notification the relay tries to forward while the
\* supervisor is not blocked in its trigger wait (during the delay, the
\* teardown, and until the supervisor has reached the select again) is
\* dropped without any effect on the supervisor, and each cycle accepts at
\* most one trigger or exit, cancels the command once and starts it once:
\* when the teardown is over, exactly once each.
C3_Coalescing ==
    /\ [][(RelayAttempt /\ supPc # "select423") => UNCHANGED supState]_vars
    /\ [](accepted <= 1 /\ starts <= 1 /\ cancels <= 1)
    /\ [](supPc = "waitDone443" => (accepted = 1 /\ cancels = 1))
    /\ []((supPc = "waitDone443" /\ done) => starts = 1)

\* C3, the case: the relay holds a notification while the supervisor, having
\* accepted a trigger, is in the delay or in the teardown.
C3_Witness ==
    /\ relayPc = "try"
    /\ cause = "trigger"
    /\ accepted = 1
    /\ supPc \in {"delay435", "waitDone443"}

\* C4: every notification handed to the relay while the system is not
\* cancelled is followed by a start of the command.
C4_RestartPerBurst ==
    (relayPc = "try" /\ ~startedSince /\ ~ctxDone) ~> (startedSince \/ ctxDone)

\* C4, the case: the relay holds a notification that arrived after the
\* command was started and before the supervisor reached its trigger wait.
C4_Witness ==
    /\ relayPc = "try"
    /\ ~startedSince
    /\ supPc = "toSelect"
    /\ child = "alive"
    /\ ~ctxDone

\* C5: while the system is not shutting down, the names the router has to
\* hand over are all taken from it, whatever the supervisor is doing and
\* even if the supervisor never takes another step.
C5_HandOffCompletes == (modC # <<>>) ~> (modC = <<>> \/ ctxDone)

\* C5, the case: a notification has gone from the router to the relay while
\* the supervisor was in the delay or in the teardown.
C5_Witness ==
    /\ modC = <<>>
    /\ relayPc = "try"
    /\ supPc \in {"delay435", "waitDone443"}
    /\ ~ctxDone

\* C9: without restartOnExit the supervisor leaves its trigger wait only
\* because a trigger was received or the context was cancelled; the
\* command's own exit never closes restart and never ends the wait.
C9_NoRestartOnExit ==
    /\ [](~autorestart => (~restart /\ cause # "restart"))
    /\ [][(~autorestart /\ supPc = "select423" /\ supPc' # "select423")
            => \/ RelayAttempt /\ cause' = "trigger" /\ supPc' = "delay435"
               \/ ctxDone /\ supPc' = "shutWait"]_vars

\* C9, the case: the command has ended on its own, runCmd has returned, and
\* the supervisor is still waiting for a trigger.
C9_Witness ==
    /\ ~autorestart
    /\ child = "reaped"
    /\ done
    /\ ~cmdctxDone
    /\ ~ctxDone
    /\ supPc = "select423"

C11_ForceKillIffGraceExpired ==
    /\ [][(cmdPc' = "kill503" /\ cmdPc # "kill503")
            => (cmdPc = "select500" /\ child # "reaped")]_vars
    /\ [][(cmdPc = "select500" /\ cmdPc' # "select500")
            => \/ child = "reaped" /\ cmdPc' = "ret"
               \/ child # "reaped" /\ cmdPc' = "kill503"]_vars
    /\ [][(cmdPc' = "wait506" /\ cmdPc # "wait506") => cmdPc = "kill503"]_vars
    /\ (cmdPc = "select500" /\ child = "alive")
            ~> (child # "alive" \/ cmdPc = "kill503")

\* The grace timer fired on a live command and SIGKILL was delivered.
C11_Witness ==
    /\ cmdPc = "wait506"
    /\ child = "exited"
    /\ cmdctxDone
    /\ ~ctxDone
    /\ orphans = 0

\* C12: the supervisor goroutine returns (wg.Done, 397) only when no process
\* it started is alive.
C12_NoChildAtDone == supPc = "returned" => Alive = 0

\* The context was cancelled during the trigger wait, the signal could not be
\* delivered, and the supervisor returned while the process lives.
C12_Witness ==
    /\ ctxDone
    /\ supPc = "returned"
    /\ done
    /\ orphans = 1
    /\ cause = "none"

\* C13: once the outer context is cancelled the supervisor goroutine
\* eventually returns, from whatever state it is in; a teardown after the
\* delay (442-443) eventually sees done closed, and so does a teardown on
\* cancellation (425-426, 437-438), even if the command never exits by
\* itself.  Goroutines and timers are scheduled fairly; the command is not
\* assumed to do anything, and a delivered SIGKILL ends it.
C13_ShutdownLiveness ==
    /\ ctxDone ~> (supPc = "returned")
    /\ (supPc = "waitDone443") ~> (supPc = "waitDone443" /\ done)
    /\ (supPc = "shutWait") ~> (supPc = "returned" /\ done)

\* Shutdown during the trigger wait: the command ignored the signal, the
\* grace timer fired, SIGKILL was delivered and the exit is being awaited.
C13_Witness ==
    /\ ctxDone
    /\ supPc = "shutWait"
    /\ cmdPc = "wait506"
    /\ child = "exited"
    /\ ~done

\* C21: on a backend error the forwarder cancels the supervisor (126), waits
\* for it (127) and only then ends the process (128): when log.Fatalf runs
\* the context is cancelled, the supervisor goroutine has returned and no
\* process it started is alive.
C21_FatalAfterTeardown ==
    fwdPc = "fatal" => (ctxDone /\ supPc = "returned" /\ Alive = 0)

\* The router's error was received while the command ran, the signal could
\* not be delivered, and log.Fatalf ran while the process lives.
C21_Witness ==
    /\ fwdPc = "fatal"
    /\ routerPc = "returned"
    /\ mainPc = "waitSig"
    /\ supPc = "returned"
    /\ orphans = 1

\* c.Start() has failed (463-465): runCmd has returned with no process, and
\* no cancel() was called in the cycle so far.
StartFailed == cmdPc = "ret" /\ child = "none" /\ ~CmdctxIsDone
\* The supervisor has begun the next cycle: its goroutine is about to call
\* c.Start().
NextAttempt == cmdPc = "start" /\ starts = 0

\* C23 as stated: after a failed launch the supervisor goes through the
\* delay and tries to start the command again, unless it is shut down.
C23_RetryAfterFailedStart == StartFailed ~> (NextAttempt \/ ctxDone)

\* C23 as amended: with -r it does; without -r the failed launch closes done
\* but not restart, and the trigger wait is left by a trigger or by the
\* shutdown only.  In both cases a cycle begins only out of the wait for done
\* that follows the delay, and the failed launch ends nothing but the cycle's
\* goroutine.
C23_RetryWithRestartOnExit ==
    /\ (autorestart /\ StartFailed) ~> (NextAttempt \/ ctxDone)
    /\ [](~autorestart => ~restart)
    /\ [][(supPc = "select423" /\ supPc' = "delay435" /\ ~autorestart)
            => cause' = "trigger"]_vars
    /\ [][(supPc' = "check" /\ supPc # "check") => (supPc = "waitDone443" /\ done)]_vars
    /\ [][(supPc' = "waitDone443" /\ supPc # "waitDone443") => supPc = "delay435"]_vars
    /\ [][(cmdPc = "start" /\ cmdPc' = "ret")
            => (Running' /\ mainPc' = mainPc /\ fwdPc' = fwdPc /\ supPc' = supPc)]_vars

\* With -r: the launch failed, restart was closed, and the supervisor is in
\* the delay before the next attempt.
C23_Witness ==
    /\ autorestart
    /\ supPc = "delay435"
    /\ cause = "restart"
    /\ cmdPc = "idle"
    /\ done
    /\ child = "none"
    /\ starts = 1
    /\ orphans = 0
    /\ ~CmdctxIsDone

\* C25: a teardown goes on whether or not the signal could be sent: after
\* killChilds(c, sig) (496) runCmd is in the grace wait, and after
\* killChilds(c, SIGKILL) (503) it waits for done; it does not return out of
\* either call.
C25_SignalFailureTolerated ==
    /\ [][cmdPc = "kill496" => cmdPc' \in {"kill496", "select500"}]_vars
    /\ [][cmdPc = "kill503" => cmdPc' \in {"kill503", "wait506"}]_vars

\* After the delay the signal could not be sent: runCmd has returned with
\* the error while the supervisor waits for done and the process lives.
C25_Witness ==
    /\ cmdPc = "ret"
    /\ child = "none"
    /\ orphans = 1
    /\ cmdctxDone
    /\ ~ctxDone
    /\ supPc = "waitDone443"
    /\ ~done

\* C38: once the outer context is cancelled, no further child process is
\* launched, wherever the supervisor loop stands at the cancellation.
C38_NoLaunchAfterCancel ==
    [][ctxDone => ~(child # "alive" /\ child' = "alive")]_vars

\* The cancellation came after the check at the top of the loop: the
\* context is done, the goroutine of the command exists and is about to call
\* c.Start().
C38_Witness ==
    /\ ctxDone
    /\ mainPc = "wgWait"
    /\ cmdPc = "start"
    /\ child = "none"
    /\ starts = 0
    /\ supPc = "toSelect"

\* -------------------------------- claims on the stdin forwarding (SpecStdin)

\* C14: with stdin forwarding and no input, once the command has ended (by
\* exit or by a signal) or the teardown was requested, runCmd eventually
\* returns, watchChild having returned and Read having returned io.EOF.
C14_ExitEndsRun ==
    (cmdPc \notin {"start", "returned"} /\ child # "none" /\ (child # "alive" \/ cmdctxDone))
        ~> (cmdPc = "returned" /\ copyPc = "eof" /\ watchPc = "returned")

\* The command was ended by a signal, watchChild reaped it and went back to
\* its select, c.Wait() waits for the copier, the copier waits in Read, and
\* runCmd waits for done: nothing moves until the context is cancelled.
C14_Witness ==
    /\ cmdPc = "select486"
    /\ ~cmdctxDone
    /\ child = "reaped"
    /\ watchPc = "select"
    /\ ~sigchld
    /\ waitPc = "awaitCopy"
    /\ copyPc = "read"
    /\ ~childctxDone
    /\ ~werrC

\* --------------------------------------------------- claims on the watcher

IsPrefix(p, q) == Len(p) <= Len(q) /\ SubSeq(q, 1, Len(p)) = p
Range(q) == {q[j] : j \in 1..Len(q)}

\* The name matches an ignore pattern.
Ignored(p) == \E j \in 1..Len(ignores) : GlobMatch(ignores[j], p)

\* No component of p below its target matches an ignore pattern.
Clean(p) == \A k \in 2..Len(p) : ~Ignored(SubSeq(p, 1, k))

\* The directories of F reachable from r through non-ignored directories.
Reach(r, F) ==
    {q \in F : /\ IsDir(q)
               /\ IsPrefix(r, q)
               /\ \A k \in (Len(r) + 1)..Len(q) : ~Ignored(SubSeq(q, 1, k))}

\* The router takes the next backend event.
Dequeue == events # <<>> /\ events' = Tail(events)

\* C2: when the router handles an event whose name matches an ignore
\* pattern, it sends nothing, registers nothing and stays in its loop,
\* whatever the event's operations and whether or not the name matches a
\* trigger pattern; and no ignored name is ever sent on modC, by the router
\* or by the walker.
C2_IgnoreBeforeTrigger ==
    /\ [][(Dequeue /\ Ignored(Head(events).name))
            => UNCHANGED <<modC, errC, routerPc, watchSet, received>>]_vars
    /\ [](\A n \in received \cup Range(modC) : ~Ignored(n))

\* The router has handled the creation of an ignored directory that also
\* matches the trigger pattern, with Create watched, and nothing was sent.
C2_Witness ==
    /\ lastEvent.name = <<"t", "i">>
    /\ lastEvent.op = {"Create"}
    /\ filtOp = {}
    /\ patterns = << <<"**">> >>
    /\ <<"t", "i">> \in fs
    /\ events = <<>>
    /\ modC = <<>>
    /\ received = {}
    /\ routerPc = "loop"

\* C6: the step in which the router takes a Create event for an existing,
\* non-ignored directory D either registers D and every directory reachable
\* from D through non-ignored directories, or ends the router with an error
\* on errC; and the router takes an event only while it is in its loop with
\* every send of the previous event delivered.  So no later event is taken
\* before D's tree is registered.
C6_WalkBeforeNextEvent ==
    /\ [][(/\ Dequeue
            /\ "Create" \in Head(events).op
            /\ Head(events).name \in fs
            /\ IsDir(Head(events).name)
            /\ ~Ignored(Head(events).name))
            => \/ /\ routerPc' = "loop"
                  /\ Reach(Head(events).name, fs) \subseteq watchSet'
               \/ /\ routerPc' = "sendErr"
                  /\ errC']_vars
    /\ [][Dequeue => (routerPc = "loop" /\ modC = <<>>)]_vars

\* A directory moved in with a subdirectory, and an ignored directory created
\* in it before the router handled the event: the walk registered the
\* first two and left the ignored one out.
C6_Witness ==
    /\ lastEvent = [name |-> <<"t", "d">>, op |-> {"Create"}]
    /\ lastWalk.root = <<"t", "d">>
    /\ lastWalk.ok
    /\ {<<"t", "d">>, <<"t", "d", "d">>, <<"t", "d", "i">>} \subseteq born
    /\ {<<"t", "d">>, <<"t", "d", "d">>} \subseteq watchSet
    /\ <<"t", "d", "i">> \notin watchSet
    /\ routerPc = "loop"

\* A created path the receiver of modC has not been told of, and will not be.
Missed(p) ==
    /\ p \notin received
    /\ p \notin Range(modC)
    /\ \A j \in 1..Len(events) :
           ~("Create" \in events[j].op /\ IsPrefix(events[j].name, p))

\* C7: when addDirRecursive returns without error for a root, the watch set
\* holds every directory reachable from the root through non-ignored
\* directories and the walk added nothing else; no registered directory
\* matches an ignore pattern or lies below one that does; and, with Create
\* watched, every path created since the start under non-ignored directories
\* that matches a trigger pattern has been reported, is being sent, or belongs
\* to a Create event the router has not handled yet.
C7_WalkRegistersTree ==
    /\ [][(lastWalk'.n # lastWalk.n /\ lastWalk'.ok)
            => /\ Reach(lastWalk'.root, fs) \subseteq watchSet'
               /\ (watchSet' \ watchSet) \subseteq Reach(lastWalk'.root, fs)]_vars
    /\ [](\A q \in watchSet : Clean(q))
    /\ []((routerPc = "loop" /\ "Create" \notin filtOp)
            => \A p \in born :
                  (Clean(p) /\ matchPatterns(p, patterns)) => ~Missed(p))

\* A directory appeared below the target after the start and was walked; a
\* file created in it afterwards was reported, while the ignored directory
\* next to it is not registered.
C7_Witness ==
    /\ lastWalk.root = <<"t", "d">>
    /\ lastWalk.ok
    /\ lastEvent.name = <<"t", "d", "f">>
    /\ <<"t", "d">> \in born \cap watchSet
    /\ <<"t", "d", "f">> \in born \cap received
    /\ <<"t", "i">> \in fs \ watchSet

\* C8: when the set-up succeeds, every target is registered and every
\* directory among the targets has been walked.
C8_EveryTargetRegistered ==
    [][(routerPc = "setup" /\ routerPc' = "loop")
        => \A j \in 1..Len(targets) :
              /\ targets[j] \in watchSet'
              /\ IsDir(targets[j]) => Reach(targets[j], fs) \subseteq watchSet']_vars

\* Two directory targets, set-up succeeded, the second one is not registered.
C8_Witness ==
    /\ targets = << <<"t">>, <<"s">> >>
    /\ routerPc = "loop"
    /\ <<"t">> \in watchSet
    /\ <<"s">> \notin watchSet
    /\ <<"s", "d">> \notin watchSet

\* C22: when some target of the command line, at whatever position, does
\* not exist, watcher() returns an error (main then stops at 104-106, before
\* the supervisor is created).
C22_MissingTargetIsFatal ==
    (routerPc # "setup" /\ \E j \in 1..Len(targets) : targets[j] \notin fs)
        => routerPc = "failed"

\* The targets are the directory "t" and then the missing "x": the set-up
\* has succeeded and the router runs.
C22_Witness ==
    /\ targets = << <<"t">>, <<"x">> >>
    /\ <<"x">> \notin fs
    /\ routerPc = "loop"
    /\ <<"t">> \in watchSet

\* C24: when the router handles an event whose name is not ignored, an
\* event with no operation outside the filter makes it send nothing on modC,
\* and an event with an operation outside the filter and a name that matches
\* a trigger pattern makes it send the name first.
C24_FilterDecides ==
    [][(Dequeue /\ ~Ignored(Head(events).name))
        => LET e == Head(events)
           IN  /\ ~Has(e.op, watchOp) => modC' = <<>>
               /\ (Has(e.op, watchOp) /\ matchPatterns(e.name, patterns))
                     => (modC' # <<>> /\ modC'[1] = e.name)]_vars

\* Create is filtered; a directory holding a file was moved in; the router
\* has handled its Create event and is sending the file's name on modC.
C24_Witness ==
    /\ filtOp = {"Create"}
    /\ lastEvent.name = <<"t", "d">>
    /\ lastEvent.op = {"Create"}
    /\ modC = << <<"t", "d", "f">> >>
    /\ routerPc = "loop"

\* C27: the step in which the router takes a Create event for an existing,
\* non-ignored directory leaves the watch set, and the router itself, as a
\* walk of that directory leaves them, whatever the filter and the trigger
\* patterns are: registered is what the walk registers, and a failed walk
\* puts the error on errC; with the error on errC the router does nothing
\* but send the names the walk found before it failed, and return once the
\* error is received.
C27_WalkWhateverTheFilter ==
    /\ [][(/\ Dequeue
            /\ "Create" \in Head(events).op
            /\ Head(events).name \in fs
            /\ IsDir(Head(events).name)
            /\ ~Ignored(Head(events).name))
            => LET w == addDirRecursive(Head(events).name, FALSE, WalkStart)
               IN  /\ watchSet' = w.ws
                   /\ errC' = w.err
                   /\ routerPc' = IF w.err THEN "sendErr" ELSE "loop"]_vars
    /\ [][routerPc = "sendErr"
            => \/ UNCHANGED <<routerPc, errC, watchSet, events>>
               \/ routerPc' = "returned" /\ ~errC' /\ UNCHANGED <<watchSet, modC, events>>]_vars

\* Create is filtered and the trigger pattern matches no directory: the
\* created directory was walked and registered, and nothing was sent.
C27_Witness ==
    /\ filtOp = {"Create"}
    /\ patterns = << <<"**", "f">> >>
    /\ lastEvent = [name |-> <<"t", "d">>, op |-> {"Create"}]
    /\ lastWalk.root = <<"t", "d">>
    /\ lastWalk.ok
    /\ <<"t", "d">> \in watchSet
    /\ modC = <<>>
    /\ received = {}
    /\ routerPc = "loop"

\* ------------------------------------ claims on the router (SpecRoute)

\* The event is a Create of a directory that exists and is not ignored.
DirCreated(e) ==
    /\ "Create" \in e.op
    /\ e.name \in fs
    /\ IsDir(e.name)
    /\ ~Ignored(e.name)

\* C28 as stated: a failure of the matcher ends the router with the error
\* on errC; and on a Create event for a path that exists, where os.Stat
\* either succeeds or fails for another reason than not-found, the router
\* either walks the directory (and registers it, or ends with the walk's
\* error) or ends with the error of os.Stat.
C28_FailuresEndRouter ==
    /\ [][(Dequeue /\ RouterMatchFails(Head(events)))
            => (errC' /\ routerPc' = "sendErr")]_vars
    /\ [][(Dequeue /\ ~RouterMatchFails(Head(events)) /\ DirCreated(Head(events)))
            => \/ Head(events).name \in watchSet'
               \/ errC' /\ routerPc' = "sendErr"]_vars

\* C28 as amended: a failure of the matcher ends the router with the error
\* on errC, nothing sent and nothing registered; the router ends in no other
\* way than by such a failure or by a failed walk: a failing os.Stat,
\* not-found or not, leaves it in its loop.
C28_MatcherFailureEndsRouter ==
    /\ [][(Dequeue /\ RouterMatchFails(Head(events)))
            => (errC' /\ routerPc' = "sendErr" /\ modC' = <<>> /\ UNCHANGED watchSet)]_vars
    /\ [][(Dequeue /\ (errC' \/ routerPc' # "loop"))
            => \/ RouterMatchFails(Head(events))
               \/ /\ DirCreated(Head(events))
                  /\ addDirRecursive(Head(events).name, TRUE, WalkStart).err]_vars
    /\ [][(Dequeue /\ ~RouterMatchFails(Head(events)) /\ Head(events).name \notin fs)
            => (~errC' /\ routerPc' = "loop" /\ UNCHANGED watchSet)]_vars

\* os.Stat was refused for the created directory "t/d": it was not walked,
\* nothing is on errC and the router is in its loop.
C28_Witness ==
    /\ lastEvent = [name |-> <<"t", "d">>, op |-> {"Create"}]
    /\ <<"t", "d">> \in fs
    /\ unreadable = {}
    /\ ignores \in IgnoreLists
    /\ patterns \in PatternLists
    /\ <<"t", "d">> \notin watchSet
    /\ ~errC
    /\ routerPc = "loop"
    /\ events = <<>>

\* ------------------------------------- claims on the polling backend

\* The step is a call of Add(n): p.mu was free and the call is what ret'
\* holds.
AddCalled(n) == adding = 0 /\ ret' # <<>> /\ ret'[1] = "Add" /\ ret'[2] = n

C16_StreamsClosed ==
    (pclosed /\ adding = 0 /\ \A l \in LoopIds : loops[l].pc = "free")
        => pchClosed = {"events", "errors"}

\* Close was called again on a closed Poller and returned nil; the loop of
\* "f" has ended, its name is still in the map, and nothing is closed.
C16_Witness ==
    /\ ret = <<"Close", "", "nil">>
    /\ \A l \in LoopIds : loops[l].pc = "free"
    /\ WatchList = {"f"}
    /\ pchClosed = {}

\* The step puts the event (path, op) on p.events.
Emits(path, op) == pevents = <<>> /\ pevents' = << <<path, op>> >>
\* The step puts some event of the path on p.events.
EmitsFor(path) == pevents = <<>> /\ pevents' # <<>> /\ pevents'[1][1] = path

\* An Add of an unreadable directory holds p.mu for ever (see PollInit).
AddStuck == adding # 0 /\ loops[adding].pc = "initErr"

\* C17: a watched file that is deleted and stays so is deregistered, on an
\* open Poller whose p.mu is not held for ever; its loop returns only when its context is done or with the
\* Remove event as its last send, and with no error; events of the file
\* come from its loop only, so none follows the loop's end; Remove of a
\* name that is not registered returns ErrNonExistentWatch.
C17_DeletedFile ==
    /\ ("f" \in WatchList /\ ~pfs["f"].ex /\ ~pclosed)
           ~> ("f" \notin WatchList \/ pfs["f"].ex \/ pclosed \/ AddStuck)
    /\ [][\A l \in LoopIds :
             (loops[l].name = "f" /\ loops[l].pc # "exit" /\ loops'[l].pc = "exit") =>
                 /\ perrors' = perrors
                 /\ CtxDone(l) \/ Emits("f", "Remove")]_vars
    /\ [][EmitsFor("f") =>
             \E l \in LoopIds :
                 /\ loops[l].name = "f" /\ loops[l].pc = "sendSel"
                 /\ Emits("f", "Remove") => loops'[l].pc = "exit"]_vars
    /\ [][(adding = 0 /\ ret' # <<>> /\ ret'[1] = "Remove" /\ ret'[2] = "f"
             /\ "f" \notin WatchList /\ ~pclosed) =>
                 /\ ret'[3] = "ErrNonExistentWatch"
                 /\ cancellers' = cancellers /\ loops' = loops]_vars

\* The file was watched, deleted and created again: its Remove event is
\* still on p.events, its loop has ended, and Remove("f") has just returned
\* ErrNonExistentWatch.
C17_Witness ==
    /\ pevents = << <<"f", "Remove">> >>
    /\ \A l \in LoopIds : loops[l].pc = "free"
    /\ pfs["f"].ex /\ pfs["f"].mt = 1
    /\ ~pclosed
    /\ ret = <<"Remove", "f", "ErrNonExistentWatch">>

\* C18: once Remove(n) has deregistered n, no event of n or of an entry of
\* n is put on p.events (until n is added again).
C18_NoEventAfterRemove ==
    [][\A n \in removedOk :
          /\ ~EmitsFor(n)
          /\ n = "d" => ~EmitsFor("d/a") /\ ~EmitsFor("d/s")]_vars

\* Remove("f") has just returned nil while the loop of "f" stands in the
\* select of sendEvent with a Write to report and room in p.events.
C18_Witness ==
    /\ ret = <<"Remove", "f", "nil">>
    /\ "f" \in removedOk
    /\ \E l \in LoopIds :
          /\ loops[l].name = "f" /\ loops[l].pc = "sendSel" /\ loops[l].cd
          /\ loops[l].out = << <<"f", "Write">> >>
    /\ pevents = <<>>

\* What a tick has to report for the entries of "d": the difference of two
\* snapshots.
Diff(before, now) ==
    {<<Join("d", k), "Create">> : k \in {j \in KidSet : ~before[j].ex /\ now[j].ex}}
    \cup {<<Join("d", k), "Remove">> : k \in {j \in KidSet : before[j].ex /\ ~now[j].ex}}
    \cup {<<Join("d", k), "Chmod">> :
              k \in {j \in KidSet : before[j].ex /\ now[j].ex /\ before[j].mode # now[j].mode}}
    \cup {<<Join("d", k), "Write">> :
              k \in {j \in KidSet : /\ before[j].ex /\ now[j].ex /\ j = "a"
                                     /\ before[j].mt # now[j].mt}}

\* C19: when a tick of pollingDir ends, the events it has put on p.events
\* for entries of the directory are the difference between the snapshot it
\* started with and the entries the directory has, and the snapshot it
\* keeps is those entries (so the next tick of an unchanged directory
\* reports nothing).
C19_TickIsDiff ==
    [][\A l \in LoopIds : (loops[l].pc = "swap" /\ loops'[l].pc = "select") =>
          /\ {e \in loops[l].tev : e[1] # "d"} = Diff(loops[l].tprev, Listing(pfs))
          /\ loops'[l].prev = Listing(pfs)
          /\ loops'[l].cur = NoKids]_vars

\* A tick that found "a" new and "s" gone has reported both and is about to
\* store the new snapshot.
C19_Witness ==
    /\ loops[1].pc = "swap"
    /\ loops[1].tev = {<<"d/a", "Create">>, <<"d/s", "Remove">>}
    /\ loops[1].tprev["s"].ex /\ ~loops[1].tprev["a"].ex

\* The paths C20 speaks of: a watched file and the entries of a watched
\* directory.
PairScope == {"f", "d/a", "d/s"}
SentInScope == {e \in sent : e[1] \in PairScope}
LogInScope == {e \in opLog : e[1] \in PairScope}
\* Every loop waits for its next tick (or has ended) and has seen the last
\* change of every path it covers.
PairQuiet ==
    /\ \A l \in LoopIds : loops[l].pc \in {"free", "select"}
    /\ \A path \in PollPaths : ~Unseen(path)

\* C20 as stated: whenever the Poller has looked at everything, the events
\* it has reported are those a native watcher has reported for the same
\* operations.
C20_SameEventSets == PairQuiet => SentInScope = LogInScope

\* C20 as amended: the same, provided no operation hit a path, and the
\* watched directory was not removed, before a tick had seen the last change
\* of the path, or of the directory's entries; what the Poller reports is
\* then at any time part of what the native watcher reports.
C20_SameEventSetsSpaced ==
    spaced => /\ SentInScope \subseteq LogInScope
              /\ PairQuiet => SentInScope = LogInScope

\* The entry "a" of the watched directory was written, a tick reported it,
\* the entry's mode was changed, and the next tick reported that.
C20_Witness ==
    /\ spaced
    /\ PairQuiet
    /\ pollOps = 2
    /\ opLog = {<<"d/a", "Write">>, <<"d/a", "Chmod">>}
    /\ sent = opLog

\* ------------------------------------------- claims on killChilds (SpecKill)

\* C26: when killChilds has returned, its first call of syscall.Kill was for
\* the signal S it was given; a second call was made exactly when the first
\* succeeded and S is neither SIGKILL nor SIGCONT, and it was for SIGCONT;
\* and when every call succeeded, the group is not left stopped with a
\* signal it has not acted on.
C26_ContinueAfterSignal ==
    killPc = "ret" =>
        /\ Len(kcalls) \in 1..2
        /\ kcalls[1][1] = ksig
        /\ Len(kcalls) = 2 <=> (kcalls[1][2] /\ ksig \notin {"SIGKILL", "SIGCONT"})
        /\ Len(kcalls) = 2 => kcalls[2][1] = "SIGCONT"
        /\ (\A k \in 1..Len(kcalls) : kcalls[k][2]) => kpending = {}

\* SIGTERM was sent to a stopped group, SIGCONT followed, and the group
\* ended on the SIGTERM it then acted on.
C26_Witness ==
    /\ killPc = "ret"
    /\ kcalls = << <<"SIGTERM", TRUE>>, <<"SIGCONT", TRUE>> >>
    /\ grp = "ended"


\* ------------------------- claims on a polled directory (SpecPair)

\* C40: within one tick the loop of the directory puts at most one event
\* of each kind on p.events for a child path; in particular one Remove for
\* a child that has vanished, also when it vanished between os.ReadDir and
\* de.Info().
C40_OneEventPerKind ==
    [][\A l \in LoopIds, k \in KidSet, op \in {"Create", "Write", "Chmod", "Remove"} :
          (loops[l].name = "d" /\ loops[l].pc = "sendSel" /\ Emits(Join("d", k), op))
              => <<Join("d", k), op>> \notin loops[l].tev]_vars

\* The entry "a" was listed and then deleted before de.Info(): the tick has
\* reported its Remove, has gone through the entries, and now offers the
\* Remove of "a" again, for what prev still holds.
C40_Witness ==
    /\ loops[1].name = "d"
    /\ loops[1].pc = "sendSel"
    /\ loops[1].nxt = "swap"
    /\ Head(loops[1].out) = <<"d/a", "Remove">>
    /\ <<"d/a", "Remove">> \in loops[1].tev
    /\ ~pfs["d/a"].ex
    /\ pevents = <<>>

\* ------------------------------ claims on the input (SpecInput)

\* C39: the chunks read from the standard input are handed out one by one
\* in the order read, and none is taken by the reader of a command whose
\* exit has been detected (its childctx is done): such a chunk stays on
\* stdinC for the next command.
C39_InputToLiveChild ==
    \A i \in 1..Len(fed) : fed[i].n = i /\ ~fed[i].done

\* The command ended, watchChild reaped it and cancelled childctx, and
\* then the copier of the ended command took the chunk the reader was
\* offering.
C39_Witness ==
    /\ fed # <<>>
    /\ fed[Len(fed)].done
    /\ fed[Len(fed)].child = "reaped"
    /\ watchPc = "returned"
    /\ copyPc = "eof"
    /\ inPc = "read"

\* ------------------------------ claims on a closed Poller (SpecPoll)

\* C34: once Close has returned, the map of registrations holds no name
\* (WatchList is empty) and every Add is rejected with ErrClosed.
C34_ClosedIsEmpty ==
    pclosed => /\ WatchList = {}
               /\ (ret # <<>> /\ ret[1] = "Add") => ret[3] = "ErrClosed"

\* The directory was watched when the Poller was closed; its loop has
\* ended, an Add has just been rejected, and WatchList still has the name.
C34_Witness ==
    /\ pclosed
    /\ ret = <<"Add", "d", "ErrClosed">>
    /\ \A l \in LoopIds : loops[l].pc = "free"
    /\ WatchList = {"d"}

\* C37: once Close has returned, nothing is put on p.events or p.errors.
C37_NoSendAfterClose ==
    [][pclosed => /\ ~(pevents = <<>> /\ pevents' # <<>>)
                  /\ ~(perrors = <<>> /\ perrors' # <<>>)]_vars

\* Close has just returned while the loop of the directory stands in the
\* select of sendEvent (its isClosed check lies behind it) with an event to
\* report and room in p.events.
C37_Witness ==
    /\ ret = <<"Close", "", "nil">>
    /\ pclosed
    /\ pevents = <<>>
    /\ \E l \in LoopIds :
          /\ loops[l].name = "d"
          /\ loops[l].pc = "sendSel"
          /\ loops[l].out # <<>>
          /\ ~loops[l].cd

\* C35: Add always returns: while it holds p.mu and waits for ready, the
\* loop it started never needs p.mu to go on.
C35_AddReturns == (adding # 0) ~> (adding = 0)

\* Add of a directory that cannot be listed: Add holds p.mu and waits for
\* ready, its loop waits in isClosed for p.mu, and nothing was sent.
C35_Witness ==
    /\ AddStuck
    /\ loops[adding].name = "d"
    /\ ~loops[adding].rdy
    /\ ~loops[adding].cd
    /\ "d" \in pdenied
    /\ perrors = <<>>

\* -------------------------- claims on adding a name again (SpecReadd)

\* C36: the exit of a polling loop deregisters only its own registration:
\* a registered name leaves the map only by a Remove call of the user or by
\* the exit of the loop registered under it, and the context of a registered
\* loop is cancelled only in the same two ways.  So a name added again
\* after a Remove stays watched, with a live loop, until it is removed or
\* its own loop ends.
C36_ExitDeregistersOwn ==
    [][\A n \in PollNames : cancellers[n] # 0 =>
          LET l == cancellers[n]
              byUser == ret' # <<>> /\ ret'[1] = "Remove" /\ ret'[2] = n
              ownExit == loops[l].pc \in {"exit", "unreg"} /\ loops'[l].pc # loops[l].pc
          IN  /\ cancellers'[n] = 0 => (byUser \/ ownExit)
              /\ (~loops[l].cd /\ loops'[l].cd) => (byUser \/ ownExit)]_vars

\* The file was removed from the watch list and added again; the goroutine
\* of the first watch has ended since and has taken the registration of the
\* second with it: the file exists, no Remove was called after the Add, the
\* second loop's context is cancelled and the name is not in the map.
C36_Witness ==
    /\ pfs["f"].ex
    /\ "f" \notin removedOk
    /\ cancellers["f"] = 0
    /\ loops[1].pc = "free"
    /\ loops[2].name = "f"
    /\ loops[2].pc = "select"
    /\ loops[2].cd
    /\ adding = 0

\* ------------------------------ claims on a polled file (SpecPair)

\* The loop l polls the file and stands at the os.Stat of a tick.
FileTick(l) == loops[l].name = "f" /\ loops[l].pc = "stat" /\ loops'[l].pc # "stat"

\* C33: polling the watched file.  The tick that finds the file compares
\* mode, and modification time and size, with what the loop remembers: it
\* remembers the new values, has Chmod to send for another mode and then
\* Write for another modification time or size, and with nothing changed it
\* sends nothing and waits for the next tick.  What the loop remembers
\* changes in no other step, and the remembered modification time only
\* grows.  So a tick puts at most one Chmod and at most one Write of the
\* file on p.events, never a Chmod after its Write, and a Write only for a
\* modification no earlier tick has reported.
C33_FileFingerprint ==
    /\ [][\A l \in LoopIds : (FileTick(l) /\ pfs["f"].ex) =>
             LET ch == pfs["f"].mode # loops[l].mode
                 wr == pfs["f"].mt # loops[l].mt
             IN  /\ loops'[l].mode = pfs["f"].mode
                 /\ loops'[l].mt = pfs["f"].mt
                 /\ loops'[l].out = (IF ch THEN << <<"f", "Chmod">> >> ELSE <<>>)
                                    \o (IF wr THEN << <<"f", "Write">> >> ELSE <<>>)
                 /\ wr => loops'[l].mt > loops[l].mt
                 /\ (~ch /\ ~wr) => (loops'[l].pc = "select" /\ pevents' = pevents)]_vars
    /\ [][\A l \in LoopIds : (loops[l].name = "f" /\ ~FileTick(l) /\ loops'[l].name = "f") =>
             (loops'[l].mode = loops[l].mode /\ loops'[l].mt = loops[l].mt)]_vars
    /\ [][\A op \in {"Chmod", "Write"} : Emits("f", op) =>
             \E l \in LoopIds :
                 /\ loops[l].name = "f"
                 /\ loops[l].pc = "sendSel"
                 /\ <<"f", op>> \notin loops[l].tev
                 /\ op = "Chmod" => <<"f", "Write">> \notin loops[l].tev]_vars

\* The file was written once and its mode changed once before a tick: the
\* tick has put Chmod and then Write on p.events, both were received, and the
\* loop waits for the next tick with the new values remembered.
C33_Witness ==
    /\ loops[1].name = "f"
    /\ loops[1].pc = "select"
    /\ loops[1].mode = 1 /\ loops[1].mt = 1
    /\ pfs["f"] = [ex |-> TRUE, mode |-> 1, mt |-> 1]
    /\ sent = {<<"f", "Chmod">>, <<"f", "Write">>}
    /\ pevents = <<>>

\* ------------------------------- claims on Close (SpecClose)

\* C32: after Close, every polling loop terminates, whether or not anything
\* is ever received from Events() or Errors(): a loop that waits in a send
\* gives the send up.
C32_LoopsEndAfterClose == pclosed ~> (\A l \in LoopIds : loops[l].pc = "free")

\* The Poller is closed, an event nobody took still fills p.events, and no
\* loop is left.
C32_Witness ==
    /\ pclosed
    /\ pevents # <<>>
    /\ \A l \in LoopIds : loops[l].pc = "free"
    /\ WatchList # {}

\* ------------------------------ claims on a failing walk (SpecWatch)

\* C30: in the Tree Walker a directory that cannot be registered or listed
\* is skipped and the walk goes on: a walk whose root can be registered
\* returns success, with every directory registered that can be and that is
\* reachable from the root through non-ignored directories.
C30_WalkSkipsFailedEntry ==
    [][(lastWalk'.n # lastWalk.n /\ CanAdd(lastWalk'.root))
        => /\ lastWalk'.ok
           /\ {q \in Reach(lastWalk'.root, fs) : CanAdd(q)} \subseteq watchSet']_vars

\* C30, as the walker has it: a walk returns success exactly when every
\* directory reachable from its root through non-ignored directories can be
\* registered and listed; one that cannot ends the walk with an error, which
\* ends the set-up or, from the router, goes to errC.
C30_FailedEntryEndsWalk ==
    [][lastWalk'.n # lastWalk.n
        => /\ lastWalk'.ok <=> \A q \in Reach(lastWalk'.root, fs) : CanAdd(q)
           /\ ~lastWalk'.ok => \/ routerPc = "setup" /\ routerPc' = "failed"
                               \/ routerPc = "loop" /\ routerPc' = "sendErr" /\ errC']_vars

\* The walk of the target registered it, came to a subdirectory it may not
\* read, and the set-up failed.
C30_Witness ==
    /\ lastWalk.root = <<"t">>
    /\ ~lastWalk.ok
    /\ routerPc = "failed"
    /\ <<"t">> \in watchSet
    /\ <<"t", "d">> \in (fs \cap unreadable) \ watchSet

\* ------------------------- claims on what the walker reports (SpecWatch)

\* The paths below r a walk of r comes to: no component below r is ignored.
Found(r) ==
    {p \in fs : /\ Len(p) > Len(r)
                /\ IsPrefix(r, p)
                /\ \A k \in (Len(r) + 1)..Len(p) : ~Ignored(SubSeq(p, 1, k))}

\* C31: a walk of a directory discovered at runtime emits no trigger
\* notification for the entries it finds: in the step in which the router
\* walks a directory, nothing but the name of the event itself is sent.
C31_NoReportAtRuntime ==
    [][(routerPc = "loop" /\ lastWalk'.n # lastWalk.n)
        => \A j \in 1..Len(modC') : modC'[j] = Head(events).name]_vars

\* C31, as the code has it: the walk of the set-up reports nothing (it gets
\* no channel), and a walk the router makes at runtime that succeeds reports
\* every entry it comes to that matches a trigger pattern.
C31_ReportAtRuntimeOnly ==
    /\ [](routerPc = "setup" => addTargets(targets, WalkStart).sent = <<>>)
    /\ [][(routerPc = "loop" /\ lastWalk'.n # lastWalk.n /\ lastWalk'.ok)
            => \A p \in Found(lastWalk'.root) :
                  matchPatterns(p, patterns) => p \in Range(modC')]_vars

\* The set-up walked a target that holds a matching file and reported
\* nothing; later a directory with a file was moved in, and the router's
\* walk of it has reported the file.
C31_Witness ==
    /\ <<"t", "f">> \in fs \ (born \cup received)
    /\ lastWalk.root = <<"t", "d">>
    /\ lastWalk.ok
    /\ lastEvent.name = <<"t", "d">>
    /\ <<"t", "d", "f">> \in received
    /\ modC = <<>>

\* -------------------------------- claims on scanning errors (SpecScan)

\* C29: a stat error while the polling backend scans (an entry that is
\* gone, or permission denied on an entry or on the directory) is not
\* fatal: no polling goroutine ends the process, the router goes on taking
\* events, and nothing is sent on errC or cancels the context of main.
C29_ScanErrorsNotFatal ==
    /\ ~Crashed
    /\ routerPc = "loop"
    /\ ~errC
    /\ ~ctxDone

\* Permission was refused on the directory or on an entry, the loop itself
\* went on to wait for its next tick, and the router has handed the error to
\* main, which cancelled its context.
C29_Witness ==
    /\ ctxDone
    /\ routerPc = "returned"
    /\ loops[1].name = "d"
    /\ loops[1].pc = "select"
    /\ "." \notin pdenied
    /\ pdenied # {}

====
